---- MODULE Spec2Model ----
(***************************************************************************)
(* Verification model of Legato-OCR-Exel-converter.                        *)
(*                                                                         *)
(*   SpecGrid      src/core/excel_service.py   render_excel                *)
(*   SpecApi       src/core/analyzer_service.py analyze_image + API_LOCK   *)
(*   SpecValidate  src/utils/file_utils.py, pdf_utils.py  validators       *)
(*   SpecStore     src/utils/file_utils.py  save_uploaded_file,            *)
(*                 safe_remove, cleanup_stale_files                        *)
(*   SpecSweep     the same store with a plain file in the root            *)
(*   SpecRemove    src/utils/file_utils.py  safe_remove on its own         *)
(*   SpecCells     src/core/models.py  CellData, then render_excel         *)
(*   SpecApp       src/app.py  handle_file_upload_secure,                  *)
(*                 handle_remove_file, next to save_uploaded_file          *)
(*   SpecReclaim   src/app.py next to cleanup_stale_files, with fairness   *)
(*   SpecNames     src/utils/file_utils.py  save_uploaded_file over names  *)
(*   SpecTwice     src/utils/file_utils.py  cleanup_stale_files, repeated  *)
(*   SpecRender    src/utils/pdf_utils.py   render_pdf_page                *)
(*   SpecEntry     every function that opens a document or an image        *)
(*   SpecCopy      the two copy loops on sources of any length;            *)
(*   SpecCopyFair  the same with fairness on the loop iterations           *)
(*   SpecCache     src/app.py  get_cached_analysis and its cache seed      *)
(*   SpecPanel     src/app.py  Convert to Excel and the result column      *)
(*   SpecAuth      src/utils/auth_utils.py  login, logout, lockout         *)
(*                                                                         *)
(* Texts are tuples of one-character strings; grid coordinates written to  *)
(* the sheet are 1-based as in the code, cell indices are 0-based.         *)
(***************************************************************************)
EXTENDS Integers, Sequences, FiniteSets, TLC

VARIABLES
    raw,         \* the cell records of the model's JSON answer, before parsing
    layout,      \* TableLayout.cells handed to render_excel (input order)
    result,      \* ConversionResult of render_excel, or NoResult
    apiLock,     \* API_LOCK: 0 when free, else the request holding it
    genaiKey,    \* the key set by the last genai.configure (process global)
    envKey,      \* os.getenv("GEMINI_API_KEY"), "" when unset
    reqPc,       \* per request: its position in analyze_image
    reqKey,      \* per request: the api_key argument, "" for None
    reqUsed,     \* per request: the key the model call ran with
    reqOps,      \* per request: the lock and genai calls it has made, in order
    vfile,       \* the stored file handed to the validators
    vkind,       \* what validate_file returned for it
    vpdf,        \* what validate_pdf returned for it
    vmsg,        \* the message of the ValueError validate_pdf raised, character by character
    rd,          \* a render_pdf_page call: its arguments and what it ended with
    pilMax,      \* Image.MAX_IMAGE_PIXELS, Pillow's process-wide ceiling
    hc,          \* a call of a function that opens a document or an image
    osName,      \* os.name of the host: "posix" or "nt"
    clock,       \* time.time(), in seconds
    dirs,        \* per uuid: the upload directory under the session root
    nextId,      \* the next uuid4 to be drawn
    up,          \* the save_uploaded_file call in progress
    sw,          \* the cleanup_stale_files call in progress
    rm,          \* a safe_remove call on its own: its arguments and outcome
    ses,         \* st.session_state of app.py: ui_step, current_file_path, error_msg
    hd,          \* the handle_file_upload_secure call in progress
    tmp,         \* per uuid: the file legato_<uuid>.tmp in the system temp directory
    auth,        \* the authentication keys of st.session_state, and the time
    cache,       \* the entries st.cache_data holds for get_cached_analysis
    panel        \* the conversion keys of st.session_state and what the page shows

gridVars == <<raw, layout, result>>
apiVars == <<apiLock, genaiKey, envKey, reqPc, reqKey, reqUsed, reqOps>>
valVars == <<vfile, vkind, vpdf, vmsg, rd, pilMax, hc>>
storeVars == <<osName, clock, dirs, nextId, up, sw>>
rmVars == <<rm>>
appVars == <<ses, hd, tmp>>
webVars == <<auth, cache, panel>>

vars == <<raw, layout, result, apiLock, genaiKey, envKey, reqPc, reqKey, reqUsed, reqOps,
          vfile, vkind, vpdf, vmsg, rd, pilMax, hc, osName, clock, dirs, nextId, up, sw, rm, ses, hd, tmp,
          auth, cache, panel>>

Min(a, b) == IF a < b THEN a ELSE b
Max(a, b) == IF a > b THEN a ELSE b

\* ------------------------------------------------------------------ bounds
MaxCells == 2      \* cells per layout
MaxCol == 1        \* largest col_index of an input cell
MaxSpan == 2       \* largest row_span / col_span of an input cell
NumRequests == 2   \* concurrent analyze_image calls
MaxUploads == 2    \* upload directories created in one run
MaxTicks == 3      \* advances of the clock, each of TimeStep seconds
MaxRawCells == 2   \* cell records in one JSON answer
MaxAppUploads == 2 \* files the application moves into the system temp directory
MaxConverts == 3   \* clicks of Convert to Excel in one run
MaxMinutes == 12   \* minutes of a session the model follows

\* ------------------------------------- the state a subsystem rests in
\* (each specification below runs one subsystem and leaves the others here)
NoResult == [kind |-> "none"]

NoRaw == [cells |-> <<>>, parsed |-> FALSE]

GridIdle == raw = NoRaw /\ layout = <<>> /\ result = NoResult

Requests == 1..NumRequests

NoCall == "no call"

ApiIdle ==
    /\ apiLock = 0
    /\ genaiKey = ""
    /\ envKey = ""
    /\ reqPc = [r \in Requests |-> "start"]
    /\ reqKey = [r \in Requests |-> ""]
    /\ reqUsed = [r \in Requests |-> NoCall]
    /\ reqOps = [r \in Requests |-> <<>>]

NoFile == [suffix |-> "", content |-> [type |-> "none"]]

NoRender == [pc |-> "idle"]

\* no entry point is running; last is the image and the pixel verdict of the
\* call that returned before
NoEntryCall == [pc |-> "idle", last |-> <<>>]

ValIdle ==
    /\ vfile = NoFile
    /\ vkind = "not run"
    /\ vpdf = "not run"
    /\ vmsg = <<>>
    /\ rd = NoRender
    /\ pilMax = 80000000
    /\ hc = NoEntryCall

UploadIds == 1..MaxUploads

\* the entries of the session root: the upload directories and, as entry 0,
\* a plain file that save_uploaded_file did not make
RootIds == 0..MaxUploads

\* an upload directory that does not exist; created, lastRead and sweptAt
\* record when the directory was made, when its file was last read and when
\* cleanup_stale_files removed it (-1: never)
NoDir ==
    [present |-> FALSE, is_dir |-> TRUE, stored |-> FALSE, atime |-> 0,
     hasFile |-> FALSE, fname |-> <<>>, fopen |-> FALSE, flen |-> 0,
     fdata |-> "", fatime |-> 0,
     owners |-> 0, created |-> 0, lastRead |-> -1, sweptAt |-> -1]

NoUpload ==
    [pc |-> "idle", stem |-> "", suffix |-> "", size |-> 0, bytes |-> 0, id |-> 0,
     total |-> 0, err |-> "", attempts |-> 0]

\* no sweep has been recorded
NoPrev == [done |-> FALSE, now |-> 0, after |-> <<>>, failed |-> {}]

\* cleanup_stale_files is not running. The fields keep, prev and again are
\* history: where keep is set, prev records the last sweep that ended (its
\* now, the root when it ended, the entries it failed to remove) and again
\* says that the running sweep began at that now with the root as it was left
NoSweep ==
    [pc |-> "idle", now |-> 0, snap |-> {}, todo |-> {}, log |-> <<>>,
     keep |-> FALSE, prev |-> NoPrev, again |-> FALSE]

NoRemove == [pc |-> "idle"]

StoreIdle ==
    /\ rm = NoRemove
    /\ osName = "posix"
    /\ clock = 0
    /\ dirs = [i \in RootIds |-> NoDir]
    /\ nextId = 1
    /\ up = NoUpload
    /\ sw = NoSweep

AppFileIds == 1..MaxAppUploads

\* st.session_state.get(uploader_key) when no file is selected
NoUploaded == [bytes |-> 0, format |-> "", pixels |-> 0]

\* init_session_state: current_file_path 0 stands for None
InitSession == [ui_step |-> "upload", current_file_path |-> 0, error_msg |-> ""]

NoHandler == [pc |-> "idle", uploaded |-> NoUploaded, total |-> 0, written |-> 0, id |-> 0]

\* a path of the system temp directory that holds no file; made records that
\* a file was once moved there, upload the stream it was copied from
NoTmp == [made |-> FALSE, present |-> FALSE, len |-> 0, upload |-> NoUploaded, atime |-> 0]

AppIdle ==
    /\ ses = InitSession
    /\ hd = NoHandler
    /\ tmp = [i \in AppFileIds |-> NoTmp]

\* st.secrets without APP_PASSWORD and GEMINI_API_KEY
NoSecrets == [APP_PASSWORD |-> "", GEMINI_API_KEY |-> ""]

\* init_auth_state: auth_status, auth_user_type and api_key None,
\* failed_attempts 0, locked_until None (-1).  now is datetime.datetime.now()
\* in minutes, secrets is st.secrets; last is the operation that ran last,
\* input what it was given and ret how it ended
NoAuth ==
    [auth_status |-> "None", auth_user_type |-> "None", api_key |-> "None",
     failed_attempts |-> 0, locked_until |-> -1, now |-> 0, secrets |-> NoSecrets,
     last |-> "none", input |-> "", ret |-> "none"]

\* an empty cache, no request made, no uuid4 drawn
NoCache == [entries |-> {}, log |-> <<>>, uuid |-> 1]

\* excel_data None: no ConversionResult; otherwise the file and the crop
\* box the result was made from
NoExcel == [file |-> 0, crop |-> 0]

\* init_session_state: ui_step "upload", no file (0), excel_data None,
\* cropping False; conversion_result and result_meta are keys nothing has
\* set; crop is the box of the cropper (0: none), uploads the uploader keys
\* used up, status what st.status said in the last script run and shown
\* what the result column displayed in it
NoPanel ==
    [ui_step |-> "upload", current_file_path |-> 0, excel_data |-> NoExcel,
     cropping |-> FALSE, crop |-> 0, conversion_result |-> NoExcel,
     result_meta |-> NoExcel, uploads |-> 0, status |-> "none",
     shown |-> "nothing"]

WebIdle ==
    /\ auth = NoAuth
    /\ cache = NoCache
    /\ panel = NoPanel

\* --------------------------------------------------------- excel_service.py
PREVIEW_ROW_CAP == 50

FORMULA_TRIGGERS == {"=", "+", "-", "@"}

\* a plausible slip: '@' left out of the trigger tuple
sanitize_no_at(text) ==
    IF text = <<>> THEN text
    ELSE IF Head(text) \in {"=", "+", "-"} THEN <<"'">> \o text
    ELSE text

sanitize_for_excel(text) ==
    IF text = <<>> THEN text
    ELSE IF Head(text) \in FORMULA_TRIGGERS THEN <<"'">> \o text
    ELSE text

\* sort key (row_index, col_index), compared as Python compares tuples
KeyLess(a, b) ==
    \/ a.row_index < b.row_index
    \/ a.row_index = b.row_index /\ a.col_index < b.col_index

\* sorted() is stable: x goes after every element whose key is not greater
InsertSorted(s, x) ==
    LET n == Cardinality({i \in 1..Len(s) : ~KeyLess(x, s[i])})
    IN  SubSeq(s, 1, n) \o <<x>> \o SubSeq(s, n + 1, Len(s))

RECURSIVE SortedPrefix(_, _)
SortedPrefix(cells, k) ==
    IF k = 0 THEN <<>> ELSE InsertSorted(SortedPrefix(cells, k - 1), cells[k])

\* a plausible slip: the sort is left out and cells are taken in input order
sorted_cells_unsorted(cells) == cells

sorted_cells(cells) == SortedPrefix(cells, Len(cells))

\* the target rectangle of a cell, in 1-based sheet coordinates
Rect(r, c, end_r, end_c) == {<<ir, ic>> : ir \in r..end_r, ic \in c..end_c}

\* dict assignment preview_data[key] = text
DictPut(d, key, text) ==
    [p \in DOMAIN d \cup {key} |-> IF p = key THEN text ELSE d[p]]

EmptyDict == [p \in {} |-> <<>>]

LoopInit ==
    [occupied |-> {}, plan |-> <<>>, preview_data |-> EmptyDict,
     max_preview_row |-> 0, max_preview_col |-> 0, raised |-> FALSE]

\* a plausible slip: the safe-merge scan is left out
is_safe_merge_always(occupied, r, c, end_r, end_c) == TRUE

is_safe_merge(occupied, r, c, end_r, end_c) ==
    \A p \in Rect(r, c, end_r, end_c) : ~(p \in occupied /\ p # <<r, c>>)

\* a plausible slip: the 0-based cell indices are tested against the 1-based
\* occupancy set
origin_taken_zero_based(occupied, r, c) == <<r - 1, c - 1>> \in occupied

\* a plausible slip: the occupancy test at the top of the loop is left out
origin_taken_never(occupied, r, c) == FALSE

origin_taken(occupied, r, c) == <<r, c>> \in occupied

\* ws.cell(row=r, column=c, ...) raises ValueError for a coordinate below 1
cell_raises(r, c) == r < 1 \/ c < 1

\* a plausible slip: <= instead of < in the preview row limit
in_preview_off_by_one(row_index) == row_index <= PREVIEW_ROW_CAP

in_preview(row_index) == row_index < PREVIEW_ROW_CAP

\* a plausible slip: the preview dict is filled before the occupancy test,
\* so skipped cells reach the preview too
LoopStep_preview_first(st, cell) ==
    LET r == cell.row_index + 1
        c == cell.col_index + 1
        safe_text == sanitize_for_excel(cell.text)
        end_r == r + cell.row_span - 1
        end_c == c + cell.col_span - 1
        wants_merge == cell.row_span > 1 \/ cell.col_span > 1
        merged == wants_merge /\ is_safe_merge(st.occupied, r, c, end_r, end_c)
        entry == [row |-> r, col |-> c, text |-> safe_text, merge |-> merged,
                  end_row |-> IF merged THEN end_r ELSE r,
                  end_col |-> IF merged THEN end_c ELSE c]
        withPreview ==
            IF in_preview(cell.row_index)
            THEN [st EXCEPT
                    !.preview_data = DictPut(@, <<cell.row_index, cell.col_index>>, safe_text),
                    !.max_preview_row = Max(@, cell.row_index),
                    !.max_preview_col = Max(@, cell.col_index)]
            ELSE st
    IN  IF st.raised THEN st
        ELSE IF origin_taken(st.occupied, r, c) THEN withPreview
        ELSE IF cell_raises(r, c) THEN [st EXCEPT !.raised = TRUE]
        ELSE [withPreview EXCEPT
                !.plan = Append(@, entry),
                !.occupied = @ \cup (IF merged THEN Rect(r, c, end_r, end_c)
                                     ELSE {<<r, c>>})]

\* one iteration of the for loop of render_excel
LoopStep(st, cell) ==
    LET r == cell.row_index + 1
        c == cell.col_index + 1
        safe_text == sanitize_for_excel(cell.text)
        end_r == r + cell.row_span - 1
        end_c == c + cell.col_span - 1
        wants_merge == cell.row_span > 1 \/ cell.col_span > 1
        merged == wants_merge /\ is_safe_merge(st.occupied, r, c, end_r, end_c)
        entry == [row |-> r, col |-> c, text |-> safe_text, merge |-> merged,
                  end_row |-> IF merged THEN end_r ELSE r,
                  end_col |-> IF merged THEN end_c ELSE c]
        withPreview ==
            IF in_preview(cell.row_index)
            THEN [st EXCEPT
                    !.preview_data = DictPut(@, <<cell.row_index, cell.col_index>>, safe_text),
                    !.max_preview_row = Max(@, cell.row_index),
                    !.max_preview_col = Max(@, cell.col_index)]
            ELSE st
    IN  IF st.raised THEN st
        ELSE IF origin_taken(st.occupied, r, c) THEN st
        ELSE IF cell_raises(r, c) THEN [st EXCEPT !.raised = TRUE]
        ELSE [withPreview EXCEPT
                !.plan = Append(@, entry),
                !.occupied = @ \cup (IF merged THEN Rect(r, c, end_r, end_c)
                                     ELSE {<<r, c>>})]

\* the loop state after the first k cells of a sorted list
RECURSIVE LoopAfter(_, _)
LoopAfter(sorted, k) ==
    IF k = 0 THEN LoopInit
    ELSE LoopStep(LoopAfter(sorted, k - 1), sorted[k])

\* TableLayout.max_rows
RECURSIVE MaxRowExtent(_, _)
MaxRowExtent(cells, k) ==
    LET e == cells[k].row_index + cells[k].row_span
    IN  IF k = 1 THEN e ELSE Max(MaxRowExtent(cells, k - 1), e)

max_rows(cells) == IF cells = <<>> THEN 0 ELSE MaxRowExtent(cells, Len(cells))

\* the dense preview matrix built from the sparse dict (1-based sequences)
PreviewRows(st) ==
    [i \in 1..Min(st.max_preview_row + 1, PREVIEW_ROW_CAP) |->
        [j \in 1..(st.max_preview_col + 1) |->
            IF <<i - 1, j - 1>> \in DOMAIN st.preview_data
            THEN st.preview_data[<<i - 1, j - 1>>] ELSE <<>>]]

render_excel(cells) ==
    LET sorted == sorted_cells(cells)
        st == LoopAfter(sorted, Len(sorted))
    IN  IF st.raised THEN [kind |-> "error", error |-> "ValueError"]
        ELSE [kind |-> "result",
              plan |-> st.plan,
              occupied |-> st.occupied,
              preview |-> PreviewRows(st),
              row_count |-> max_rows(cells)]

\* ------------------------------------------------------ analyzer_service.py
ApiKeys == {"", "K1", "K2"}

\* key = api_key or os.getenv("GEMINI_API_KEY")
EffectiveKey(r) == IF reqKey[r] # "" THEN reqKey[r] ELSE envKey

\* a plausible slip: the lock is not tested before the window is entered
lock_is_free_unchecked(lock) == TRUE

lock_is_free(lock) == lock = 0

\* key lookup; without a key the mock layout is returned and no lock is taken
AnalyzeStart(r) ==
    /\ reqPc[r] = "start"
    /\ reqPc' = [reqPc EXCEPT ![r] = IF EffectiveKey(r) = "" THEN "mock" ELSE "acquire"]
    /\ UNCHANGED <<apiLock, genaiKey, envKey, reqKey, reqUsed, reqOps>>

\* API_LOCK.acquire(timeout=30) returns True
LockAcquire(r) ==
    /\ reqPc[r] = "acquire"
    /\ lock_is_free(apiLock)
    /\ apiLock' = r
    /\ reqPc' = [reqPc EXCEPT ![r] = "configure"]
    /\ reqOps' = [reqOps EXCEPT ![r] = Append(@, "acquire")]
    /\ UNCHANGED <<genaiKey, envKey, reqKey, reqUsed>>

\* API_LOCK.acquire(timeout=30) returns False: only while another holds the
\* lock; TimeoutError is raised, nothing is configured, called or released
LockTimeout(r) ==
    /\ reqPc[r] = "acquire"
    /\ apiLock # 0
    /\ reqPc' = [reqPc EXCEPT ![r] = "busy"]
    /\ UNCHANGED <<apiLock, genaiKey, envKey, reqKey, reqUsed, reqOps>>

\* genai.configure(api_key=key)
Configure(r) ==
    /\ reqPc[r] = "configure"
    /\ genaiKey' = EffectiveKey(r)
    /\ reqPc' = [reqPc EXCEPT ![r] = "call"]
    /\ reqOps' = [reqOps EXCEPT ![r] = Append(@, "configure")]
    /\ UNCHANGED <<apiLock, envKey, reqKey, reqUsed>>

\* GenerativeModel(...).generate_content(...): runs with the configured key,
\* returns a response or raises
GenerateContent(r) ==
    /\ reqPc[r] = "call"
    /\ reqUsed' = [reqUsed EXCEPT ![r] = genaiKey]
    /\ reqOps' = [reqOps EXCEPT ![r] = Append(@, "generate_content")]
    /\ \E outcome \in {"release_ok", "release_raised"} :
         reqPc' = [reqPc EXCEPT ![r] = outcome]
    /\ UNCHANGED <<apiLock, genaiKey, envKey, reqKey>>

\* a plausible slip: the release follows the call instead of standing in a
\* finally clause, so that an exception of the call skips it
release_unless_raised(raised) == ~raised

\* lines 81-82: the finally clause runs whether or not the call raised
release_in_finally(raised) == TRUE

\* finally: API_LOCK.release(); then the response is parsed, or the
\* exception of the call propagates
LockRelease(r) ==
    /\ reqPc[r] \in {"release_ok", "release_raised"}
    /\ IF release_in_finally(reqPc[r] = "release_raised")
       THEN /\ apiLock' = 0
            /\ reqOps' = [reqOps EXCEPT ![r] = Append(@, "release")]
       ELSE UNCHANGED <<apiLock, reqOps>>
    /\ \E next \in (IF reqPc[r] = "release_ok" THEN {"done", "invalid"} ELSE {"failed"}) :
         reqPc' = [reqPc EXCEPT ![r] = next]
    /\ UNCHANGED <<genaiKey, envKey, reqKey, reqUsed>>

InitApi ==
    /\ AppIdle
    /\ apiLock = 0
    /\ genaiKey = ""
    /\ envKey \in {"", "KENV"}
    /\ reqPc = [r \in Requests |-> "start"]
    /\ reqKey \in [Requests -> ApiKeys]
    /\ reqUsed = [r \in Requests |-> NoCall]
    /\ reqOps = [r \in Requests |-> <<>>]
    /\ GridIdle
    /\ ValIdle
    /\ StoreIdle
    /\ WebIdle

NextApi ==
    \E r \in Requests :
        /\ \/ AnalyzeStart(r)
           \/ LockAcquire(r)
           \/ LockTimeout(r)
           \/ Configure(r)
           \/ GenerateContent(r)
           \/ LockRelease(r)
        /\ UNCHANGED <<gridVars, valVars, storeVars, rmVars, appVars, webVars>>

SpecApi == InitApi /\ [][NextApi]_vars

InWindow(r) == reqPc[r] \in {"configure", "call", "release_ok", "release_raised"}

\* C3: at most one request is between acquiring and releasing API_LOCK, the
\* lock is held by exactly that request, the configured key is the holder's
\* own from configure to release, and every model call ran with the key of
\* the request that made it.
C3_SerializedCredentials ==
    /\ \A r1, r2 \in Requests : (InWindow(r1) /\ InWindow(r2)) => r1 = r2
    /\ \A r \in Requests : InWindow(r) <=> apiLock = r
    /\ \A r \in Requests :
         reqPc[r] \in {"call", "release_ok", "release_raised"} => genaiKey = EffectiveKey(r)
    /\ \A r \in Requests : reqUsed[r] # NoCall => reqUsed[r] = EffectiveKey(r)

\* one request has finished its call with its key while another, with a
\* different key, is inside the window about to call
C3_Witness ==
    \E r1, r2 \in Requests :
        /\ reqUsed[r1] # NoCall
        /\ reqPc[r1] \in {"done", "invalid", "failed"}
        /\ reqPc[r2] = "call"
        /\ EffectiveKey(r1) # EffectiveKey(r2)

\* ---------------------------------------------- file_utils.py, pdf_utils.py
MAX_IMAGE_PIXELS == 80000000

PDF_PAGE_LIMIT == 10

\* what the stored bytes decode to
PdfDocs ==
    [type : {"pdf"}, needs_pass : BOOLEAN, page_count : {0, 1, 10, 11, 12},
     catalog : {"absent", "plain", "/JavaScript", "/JS"}]

Images ==
    [type : {"image"}, format : {"JPEG", "PNG", "WEBP", "MPO", "GIF"},
     verify_ok : BOOLEAN, width : {1, 8000, 20000}, height : {1, 10000, 10001}]

Garbage == [type : {"garbage"}]

StoredFiles == [suffix : {".pdf", ".PDF", ".png"}, content : PdfDocs \cup Images \cup Garbage]

\* str.lower() on the suffixes of the model
LowerSuffix(sfx) ==
    CASE sfx = ".PDF" -> ".pdf"
      [] sfx = ".PNG" -> ".png"
      [] sfx = ".Jpg" -> ".jpg"
      [] sfx = ".JPEG" -> ".jpeg"
      [] sfx = ".WebP" -> ".webp"
      [] OTHER -> sfx

\* a plausible slip: an image of exactly the limit counted as beyond it
exceeds_pixel_limit_inclusive(pixels) == pixels >= MAX_IMAGE_PIXELS

\* Pillow's check at Image.open against Image.MAX_IMAGE_PIXELS (line 20),
\* and line 160
exceeds_pixel_limit(pixels) == pixels > MAX_IMAGE_PIXELS

\* file_utils.validate_image_security: "image", or the ValueError it raises;
\* Image.open raises DecompressionBombError beyond twice the limit and,
\* under the filter of line 21, DecompressionBombWarning beyond the limit
validate_image_security(content) ==
    IF content.type # "image" THEN "error: invalid image file"
    ELSE IF content.width * content.height > 2 * MAX_IMAGE_PIXELS
         THEN "error: pixel limit (bomb error)"
    ELSE IF exceeds_pixel_limit(content.width * content.height)
         THEN "error: pixel limit"
    ELSE IF content.format \notin {"JPEG", "PNG", "WEBP", "MPO"}
         THEN "error: unsupported format"
    ELSE IF ~content.verify_ok THEN "error: verify"
    ELSE "image"

\* file_utils.validate_file: the kind, or the error of the image check
validate_file(file) ==
    IF LowerSuffix(file.suffix) = ".pdf" THEN "pdf"
    ELSE validate_image_security(file.content)

\* a plausible slip: only the long script key is looked for
catalog_has_script_long_only(catalog) == catalog = "/JavaScript"

\* "/JavaScript" in catalog_str or "/JS" in catalog_str
catalog_has_script(catalog) == catalog \in {"/JavaScript", "/JS"}

\* pdf_utils.validate_pdf: "ok", or the ValueError it raises
validate_pdf(content) ==
    IF content.type # "pdf" THEN "error: corrupted"      \* fitz.FileDataError
    ELSE IF content.needs_pass THEN "error: password protected"
    ELSE IF content.page_count > PDF_PAGE_LIMIT THEN "error: page limit"
    ELSE IF content.catalog # "absent" /\ catalog_has_script(content.catalog)
         THEN "error: javascript"
    ELSE "ok"

\* str() of a digit
DigitChar(d) == <<"0", "1", "2", "3", "4", "5", "6", "7", "8", "9">>[d + 1]

\* the decimal text an f-string puts for a non-negative integer
RECURSIVE Digits(_)
Digits(n) == IF n < 10 THEN <<DigitChar(n)>> ELSE Digits(n \div 10) \o <<DigitChar(n % 10)>>

\* a plausible slip: the message names the limit only
page_limit_message_limit_only(page_count) ==
    <<"PDF exceeds page limit (">> \o Digits(PDF_PAGE_LIMIT)
        \o <<"). Please upload a smaller file.">>

\* line 26: f"PDF exceeds page limit ({doc.page_count}/{PDF_PAGE_LIMIT}). ..."
page_limit_message(page_count) ==
    <<"PDF exceeds page limit (">> \o Digits(page_count) \o <<"/">>
        \o Digits(PDF_PAGE_LIMIT) \o <<"). Please upload a smaller file.">>

\* the text of the ValueError validate_pdf raises, empty when it returns
validate_pdf_message(content) ==
    CASE validate_pdf(content) = "error: corrupted" -> <<"Invalid or corrupted PDF file.">>
      [] validate_pdf(content) = "error: password protected" ->
            <<"Password protected PDFs are not supported.">>
      [] validate_pdf(content) = "error: page limit" -> page_limit_message(content.page_count)
      [] validate_pdf(content) = "error: javascript" ->
            <<"PDF contains Javascript which is restricted for security.">>
      [] OTHER -> <<>>

InitValidate ==
    /\ AppIdle
    /\ vfile \in StoredFiles
    /\ vkind = "not run"
    /\ vpdf = "not run"
    /\ vmsg = <<>>
    /\ rd = NoRender
    /\ pilMax = MAX_IMAGE_PIXELS
    /\ hc = NoEntryCall
    /\ GridIdle
    /\ ApiIdle
    /\ StoreIdle
    /\ WebIdle

ValidateFile ==
    /\ vkind = "not run"
    /\ vkind' = validate_file(vfile)
    /\ UNCHANGED <<vfile, vpdf, vmsg, rd, pilMax, hc, gridVars, apiVars, storeVars, rmVars, appVars, webVars>>

\* the caller's next step for a "pdf" result (the comment in validate_file)
ValidatePdf ==
    /\ vkind = "pdf"
    /\ vpdf = "not run"
    /\ vpdf' = validate_pdf(vfile.content)
    /\ vmsg' = validate_pdf_message(vfile.content)
    /\ UNCHANGED <<vfile, vkind, rd, pilMax, hc, gridVars, apiVars, storeVars, rmVars, appVars, webVars>>

NextValidate == ValidateFile \/ ValidatePdf

SpecValidate == InitValidate /\ [][NextValidate]_vars

IsPdfDoc(content) == content.type = "pdf"

ForbiddenContent(content) ==
    \/ IsPdfDoc(content) /\ content.needs_pass
    \/ IsPdfDoc(content) /\ content.page_count > PDF_PAGE_LIMIT
    \/ IsPdfDoc(content) /\ content.catalog \in {"/JavaScript", "/JS"}
    \/ content.type = "image" /\ content.width * content.height > MAX_IMAGE_PIXELS

\* C5 (as claimed): validate_file never returns a content kind for an
\* encrypted document, a document over the page ceiling, a document whose
\* catalog holds a script key, or an image over the pixel ceiling.
C5_ValidateFileIsTheGate ==
    vkind \in {"pdf", "image"} => ~ForbiddenContent(vfile.content)

\* C5 (amended): validate_file never returns "image" for an image over the
\* pixel ceiling, and it returns "pdf" from the suffix alone; the document
\* checks are validate_pdf's, called next: validate_file followed by
\* validate_pdf never both succeed for an encrypted document, a document
\* over the page ceiling or a document whose catalog holds a script key.
C5_GateIsFileThenPdf ==
    /\ vkind = "image" =>
         /\ vfile.content.type = "image"
         /\ vfile.content.width * vfile.content.height <= MAX_IMAGE_PIXELS
    /\ (vkind = "pdf" /\ vpdf = "ok") =>
         /\ IsPdfDoc(vfile.content)
         /\ ~ForbiddenContent(vfile.content)
    /\ vkind = "pdf" <=> (vkind # "not run" /\ LowerSuffix(vfile.suffix) = ".pdf")

\* validate_file has returned "pdf" for a 10-page document whose catalog
\* holds /JS, and validate_pdf has then rejected it
C5_Witness ==
    /\ vkind = "pdf"
    /\ vpdf = "error: javascript"
    /\ vfile.content.catalog = "/JS"
    /\ vfile.content.page_count = PDF_PAGE_LIMIT

\* ------------------------------------------ pdf_utils.py: render_pdf_page
\* the documents a page is rendered from: whether fitz.open succeeds, the
\* page count, the page rectangle in points, whether get_pixmap succeeds
RenderDocs ==
    [opens : BOOLEAN, page_count : {0, 1, 3},
     rect : {<<612, 792>>, <<595, 842>>, <<4000, 4000>>, <<12000, 12000>>},
     draws : BOOLEAN]

PageIndices == {-1, 0, 1, 2, 3}

\* dpi values: 72 and 216 give the whole scales 1 and 3, 1200 gives 16.66...
RenderDpis == {72, 216, 1200}

RenderCalls == [pc : {"call"}, doc : RenderDocs, page_index : PageIndices, dpi : RenderDpis]

\* line 66: page_index < 0 or page_index >= doc.page_count
invalid_page_index(page_index, page_count) ==
    page_index < 0 \/ page_index >= page_count

\* lines 102-108: whatever was raised inside the try block, the ValueError
\* of line 67 included, leaves the function as a new ValueError whose
\* message is this prefix followed by the text of the exception caught; the
\* document is closed when fitz.open had returned
except_exception(text, opened) ==
    [kind |-> "ValueError", message |-> <<"Failed to render page: ", text>>,
     rendered |-> FALSE, downscaled |-> FALSE, scale |-> 0,
     handle |-> IF opened THEN "closed" ELSE "never opened"]

\* Python's float arithmetic.  Every float operation returns the
\* representable number nearest to the exact result.  The model keeps that
\* rounding and holds a scale in steps of 1 / ScaleUnits instead of
\* binary64's 53 bits; a scale is the whole number of such steps.  Products
\* of pixel counts and squared scales pass 2^31, so they are kept as
\* sequences of digits in base Base, least significant first.
ScaleUnits == 1000

Base == 10000

RECURSIVE ToBig(_)
ToBig(n) == IF n < Base THEN <<n>> ELSE <<n % Base>> \o ToBig(n \div Base)

\* x * k + carry, for k below 200000
RECURSIVE BigScale(_, _, _)
BigScale(x, k, carry) ==
    IF x = <<>> THEN (IF carry = 0 THEN <<>> ELSE ToBig(carry))
    ELSE LET t == x[1] * k + carry
         IN  <<t % Base>> \o BigScale(Tail(x), k, t \div Base)

\* n times the whole numbers of a sequence, each below 200000
RECURSIVE BigProduct(_, _)
BigProduct(n, factors) ==
    IF factors = <<>> THEN ToBig(n)
    ELSE BigScale(BigProduct(n, Tail(factors)), Head(factors), 0)

\* x <= y, for numbers without leading zero digits
RECURSIVE BigLeq(_, _)
BigLeq(x, y) ==
    IF Len(x) # Len(y) THEN Len(x) < Len(y)
    ELSE IF x = <<>> THEN TRUE
    ELSE IF x[Len(x)] # y[Len(y)] THEN x[Len(x)] < y[Len(y)]
    ELSE BigLeq(SubSeq(x, 1, Len(x) - 1), SubSeq(y, 1, Len(y) - 1))

\* line 73: scale = dpi / 72.0, rounded to the nearest step
requested_scale(dpi) == (2 * ScaleUnits * dpi + 72) \div 144

\* lines 75-76 and 80, the page at a scale: whether
\* (rect.width * scale) * (rect.height * scale) > MAX_IMAGE_PIXELS
area_exceeds(rect, scale) ==
    ~BigLeq(BigProduct(1, <<rect[1], rect[2], scale, scale>>),
            BigProduct(MAX_IMAGE_PIXELS, <<ScaleUnits, ScaleUnits>>))

\* line 83: safe_scale = (MAX_IMAGE_PIXELS / (rect.width * rect.height)) ** 0.5,
\* the step nearest to the root: the largest n with
\* (2n - 1)^2 * width * height <= 4 * ScaleUnits^2 * MAX_IMAGE_PIXELS.
\* The root is sought below top, the requested scale, which it is below
\* whenever line 80 sent the code here.
RECURSIVE sqrt_nearest(_, _, _)
sqrt_nearest(rect, lo, hi) ==
    IF hi - lo <= 1 THEN lo
    ELSE LET mid == (lo + hi) \div 2
         IN  IF BigLeq(BigProduct(1, <<rect[1], rect[2], 2 * mid - 1, 2 * mid - 1>>),
                       BigProduct(MAX_IMAGE_PIXELS, <<2 * ScaleUnits, 2 * ScaleUnits>>))
             THEN sqrt_nearest(rect, mid, hi)
             ELSE sqrt_nearest(rect, lo, mid)

safe_scale(rect, top) == sqrt_nearest(rect, 0, top + 1)

\* lines 79-84: beyond the pixel limit the scale becomes min(scale, safe_scale)
needs_downscale(rect, dpi) == area_exceeds(rect, requested_scale(dpi))

\* lines 73-86: the scale handed to fitz.Matrix
effective_scale(rect, dpi) ==
    LET scale == requested_scale(dpi)
    IN  IF needs_downscale(rect, dpi)
        THEN (IF scale < safe_scale(rect, scale) THEN scale ELSE safe_scale(rect, scale))
        ELSE scale

\* render_pdf_page(file_path, page_index, dpi): the PNG bytes, or the
\* ValueError it raises
render_pdf_page(doc, page_index, dpi) ==
    IF ~doc.opens THEN except_exception("cannot open file", FALSE)
    ELSE IF invalid_page_index(page_index, doc.page_count)
         THEN except_exception("Invalid page index.", TRUE)
    ELSE IF ~doc.draws THEN except_exception("pixmap error", TRUE)
    ELSE [kind |-> "bytes", message |-> <<>>, rendered |-> TRUE,
          downscaled |-> needs_downscale(doc.rect, dpi),
          scale |-> effective_scale(doc.rect, dpi), handle |-> "closed"]

InitRender ==
    /\ AppIdle
    /\ vfile = NoFile
    /\ vkind = "not run"
    /\ vpdf = "not run"
    /\ vmsg = <<>>
    /\ rd \in RenderCalls
    /\ pilMax = MAX_IMAGE_PIXELS
    /\ hc = NoEntryCall
    /\ GridIdle
    /\ ApiIdle
    /\ StoreIdle
    /\ WebIdle

RenderPdfPage ==
    /\ rd.pc = "call"
    /\ rd' = [pc |-> "returned", doc |-> rd.doc, page_index |-> rd.page_index,
              dpi |-> rd.dpi, res |-> render_pdf_page(rd.doc, rd.page_index, rd.dpi)]
    /\ UNCHANGED <<vfile, vkind, vpdf, vmsg, pilMax, hc, gridVars, apiVars, storeVars, rmVars, appVars, webVars>>

NextRender == RenderPdfPage

SpecRender == InitRender /\ [][NextRender]_vars

\* ------------------------------------- file_utils.py: the upload store
MAX_FILE_SIZE_BYTES == 20 * 1024 * 1024

TEMP_TTL_SECONDS == 3600

\* a plausible slip: an extension too many on the list
ALLOWED_EXTENSIONS_with_gif == {".png", ".jpg", ".jpeg", ".webp", ".pdf", ".gif"}

ALLOWED_EXTENSIONS == {".png", ".jpg", ".jpeg", ".webp", ".pdf"}

\* uploaded_file.read(1024 * 1024)
COPY_CHUNK == 1024 * 1024

\* time advances in steps of half the TTL
TimeStep == TEMP_TTL_SECONDS \div 2

\* uploaded_file: the suffix of its name, the size it declares and the
\* number of bytes its stream holds
UploadSizes == {0, COPY_CHUNK + 1, MAX_FILE_SIZE_BYTES, MAX_FILE_SIZE_BYTES + 1}

DeclaredSizes == {MAX_FILE_SIZE_BYTES, MAX_FILE_SIZE_BYTES + 1}

Uploads ==
    [stem : {"a"}, suffix : {".PDF", ".exe"}, size : DeclaredSizes,
     bytes : UploadSizes]

\* the bytes of a stream that never signals the end of its data
Endless == -1

\* uploaded_file.read(n) / src.read(n) at an offset of a stream of that many
\* bytes: at most n bytes, none at the end; an endless stream always has n
read(bytes, offset, n) == IF bytes = Endless THEN n ELSE Min(n, bytes - offset)

\* a plausible slip: the limit itself counted as exceeding it
over_limit_inclusive(total) == total >= MAX_FILE_SIZE_BYTES

\* a plausible slip: the running total is never tested
over_limit_unchecked(total) == FALSE

\* save_uploaded_file line 121
over_limit(total) == total > MAX_FILE_SIZE_BYTES

\* dst.write(chunk) for the n bytes read at offset off of the stream: the
\* file holds bytes [0, flen) of the stream while fdata = "stream"
file_write(d, off, n) ==
    [d EXCEPT !.flen = d.flen + n,
              !.fdata = IF d.flen = off /\ d.fdata \in {"", "stream"}
                        THEN "stream" ELSE "corrupt"]

\* what removing a directory tree can raise: on Windows a handle held by
\* another process makes it fail (safe_remove's docstring)
RmtreeOutcomes ==
    IF osName = "nt" THEN {"ok", "PermissionError", "OSError"} ELSE {"ok"}

Removed(d) == [d EXCEPT !.present = FALSE, !.hasFile = FALSE, !.fopen = FALSE]

\* for _ in range(3)
SAFE_REMOVE_ATTEMPTS == 3

\* a plausible slip: only PermissionError is caught, anything else escapes
after_error_uncaught(outcome) ==
    IF outcome = "PermissionError" THEN "retry" ELSE "raise"

\* safe_remove lines 76-79: PermissionError sleeps and retries, any other
\* exception leaves the loop
after_error(outcome) ==
    IF outcome = "PermissionError" THEN "retry" ELSE "break"

NotRemoved(tries) == [removed |-> FALSE, tries |-> tries, escaped |-> FALSE]

\* the loop of safe_remove from its k-th iteration on; outcomes[k] is what
\* the k-th rmtree / unlink does
RECURSIVE remove_loop(_, _)
remove_loop(outcomes, k) ==
    IF k > SAFE_REMOVE_ATTEMPTS THEN NotRemoved(k - 1)
    ELSE IF outcomes[k] = "ok" THEN [removed |-> TRUE, tries |-> k, escaped |-> FALSE]
    ELSE IF after_error(outcomes[k]) = "retry" THEN remove_loop(outcomes, k + 1)
    ELSE IF after_error(outcomes[k]) = "break" THEN NotRemoved(k)
    ELSE [removed |-> FALSE, tries |-> k, escaped |-> TRUE]

\* safe_remove(path): whether the path was removed, how many removals were
\* attempted, whether an exception left the function
safe_remove(exists, outcomes) ==
    IF ~exists THEN NotRemoved(0) ELSE remove_loop(outcomes, 1)

\* a plausible slip: one fixed directory name for every upload
uuid4_fixed(n) == 1

\* str(uuid.uuid4()): the n-th identifier drawn differs from all before it
uuid4(n) == n

Rejected(f, err) ==
    [NoUpload EXCEPT !.pc = "done", !.stem = f.stem, !.suffix = f.suffix,
                     !.size = f.size, !.bytes = f.bytes, !.err = err]

\* upload_dir.mkdir(parents=True, exist_ok=True), then dest_path.open("wb"):
\* an existing directory is kept, the file is created or truncated
MkdirAndOpen(d, id, suffix) ==
    [(IF d.present THEN d
      ELSE [NoDir EXCEPT !.present = TRUE, !.atime = clock, !.created = clock])
     EXCEPT !.hasFile = TRUE, !.fopen = TRUE, !.flen = 0, !.fdata = "",
            !.fatime = clock, !.fname = <<id, suffix>>, !.owners = d.owners + 1]

\* save_uploaded_file up to the first read: the two checks, mkdir, open
IngestStart(f) ==
    /\ up.pc = "idle"
    /\ IF f.size > MAX_FILE_SIZE_BYTES
       THEN /\ up' = Rejected(f, "SizeLimit")
            /\ UNCHANGED <<dirs, nextId>>
       ELSE IF LowerSuffix(f.suffix) \notin ALLOWED_EXTENSIONS
       THEN /\ up' = Rejected(f, "Extension")
            /\ UNCHANGED <<dirs, nextId>>
       ELSE /\ nextId <= MaxUploads
            /\ LET id == uuid4(nextId)
               IN  /\ dirs' = [dirs EXCEPT ![id] = MkdirAndOpen(@, id, LowerSuffix(f.suffix))]
                   /\ up' = [NoUpload EXCEPT !.pc = "copy", !.stem = f.stem,
                                              !.suffix = f.suffix, !.size = f.size,
                                              !.bytes = f.bytes, !.id = id]
            /\ nextId' = nextId + 1
    /\ UNCHANGED <<osName, clock, sw, gridVars, apiVars, valVars, rmVars, appVars, webVars>>

\* one iteration of the copy loop (lines 117-125); an empty read leaves the
\* loop, closes the file, sets the permissions and returns the path
CopyChunk ==
    /\ up.pc = "copy"
    /\ LET chunk == read(up.bytes, up.total, COPY_CHUNK)
           total == up.total + chunk
           d == dirs[up.id]
       IN  IF chunk = 0
           THEN /\ dirs' = [dirs EXCEPT ![up.id] = [d EXCEPT !.fopen = FALSE, !.stored = TRUE]]
                /\ up' = [up EXCEPT !.pc = "done"]
           ELSE IF over_limit(total)
           THEN \* unlink of the file that dst still holds open, then the
                \* exception leaves the with block, which closes dst
                /\ dirs' = [dirs EXCEPT ![up.id] =
                              IF osName = "nt"
                              THEN [d EXCEPT !.fopen = FALSE]
                              ELSE [d EXCEPT !.fopen = FALSE, !.hasFile = FALSE,
                                             !.flen = 0, !.fdata = ""]]
                /\ up' = [up EXCEPT !.pc = "cleanup", !.total = total,
                                    !.err = IF osName = "nt" THEN "PermissionError"
                                            ELSE "SizeLimit"]
           ELSE /\ dirs' = [dirs EXCEPT ![up.id] = file_write(d, up.total, chunk)]
                /\ up' = [up EXCEPT !.total = total]
    /\ UNCHANGED <<osName, clock, nextId, sw, gridVars, apiVars, valVars, rmVars, appVars, webVars>>

\* the except block of save_uploaded_file: safe_remove(upload_dir), then the
\* exception is raised again
SafeRemove ==
    /\ up.pc = "cleanup"
    /\ \E outcomes \in [1..SAFE_REMOVE_ATTEMPTS -> RmtreeOutcomes] :
         LET res == safe_remove(dirs[up.id].present, outcomes)
         IN  /\ dirs' = IF res.removed THEN [dirs EXCEPT ![up.id] = Removed(@)] ELSE dirs
             /\ up' = [up EXCEPT !.pc = "done", !.attempts = res.tries,
                                 !.err = IF res.escaped THEN "RemoveError" ELSE @]
    /\ UNCHANGED <<osName, clock, nextId, sw, gridVars, apiVars, valVars, rmVars, appVars, webVars>>

\* the caller has the path or the exception; the next upload may start
IngestReturn ==
    /\ up.pc = "done"
    /\ up' = NoUpload
    /\ UNCHANGED <<osName, clock, dirs, nextId, sw, gridVars, apiVars, valVars, rmVars, appVars, webVars>>

\* cleanup_stale_files lines 42-47: the root exists once an upload directory
\* was made; now is taken once, iterdir lists the root's entries
SweepStart ==
    /\ sw.pc = "idle"
    /\ nextId > 1
    /\ LET entries == {i \in RootIds : dirs[i].present}
       IN  sw' = [pc |-> "scan", now |-> clock, snap |-> entries, todo |-> entries,
                  log |-> <<>>, keep |-> sw.keep, prev |-> sw.prev,
                  again |-> sw.prev.done /\ sw.prev.now = clock /\ sw.prev.after = dirs]
    /\ UNCHANGED <<osName, clock, dirs, nextId, up, gridVars, apiVars, valVars, rmVars, appVars, webVars>>

\* a plausible slip: an entry is removed once its age reaches the TTL
is_stale_inclusive(now, d) == now - d.atime >= TEMP_TTL_SECONDS

\* line 50: the entry's own st_atime is compared
is_stale(now, d) == now - d.atime > TEMP_TTL_SECONDS

\* a plausible slip: one handler around the whole loop, so that the first
\* exception ends the scan
after_item_error_abort(todo, i) == {}

\* lines 55-57: the exception of one entry is dropped and the loop goes on
after_item_error(todo, i) == todo \ {i}

\* a plausible slip: the function returns after the first expired entry
after_expired_item_return(todo, i) == {}

\* line 47: after an expired entry the for loop goes on with the next
after_expired_item(todo, i) == todo \ {i}

Examined(i, age, removed, error) ==
    [id |-> i, age |-> age, removed |-> removed, error |-> error]

\* lines 48-57 for one entry of the listing: stat (which raises when the
\* entry has vanished), the TTL test, then safe_remove for a file and
\* rmtree(ignore_errors=True) for a directory
SweepItem(i) ==
    /\ sw.pc = "scan"
    /\ i \in sw.todo
    /\ LET d == dirs[i]
           age == sw.now - d.atime
       IN  IF ~d.present
           THEN /\ sw' = [sw EXCEPT !.todo = after_item_error(@, i),
                                    !.log = Append(@, Examined(i, 0, FALSE, TRUE))]
                /\ UNCHANGED dirs
           ELSE IF ~is_stale(sw.now, d)
           THEN /\ sw' = [sw EXCEPT !.todo = @ \ {i},
                                    !.log = Append(@, Examined(i, age, FALSE, FALSE))]
                /\ UNCHANGED dirs
           ELSE \E outcomes \in [1..SAFE_REMOVE_ATTEMPTS -> RmtreeOutcomes] :
                  LET gone == IF d.is_dir
                              THEN outcomes[1] = "ok" /\ ~(osName = "nt" /\ d.fopen)
                              ELSE safe_remove(TRUE, outcomes).removed
                  IN  /\ dirs' = IF gone
                                 THEN [dirs EXCEPT ![i] = [Removed(@) EXCEPT !.sweptAt = clock]]
                                 ELSE dirs
                      /\ sw' = [sw EXCEPT !.todo = after_expired_item(@, i),
                                          !.log = Append(@, Examined(i, age, gone, ~gone))]
    /\ UNCHANGED <<osName, clock, nextId, up, gridVars, apiVars, valVars, rmVars, appVars, webVars>>

\* the entries of a sweep's log that were expired and are still there
FailedRemovals(log) ==
    {k \in 1..Len(log) : log[k].error /\ log[k].age > TEMP_TTL_SECONDS}

\* line 59: the loop is over and the function returns
SweepEnd ==
    /\ sw.pc = "scan"
    /\ sw.todo = {}
    /\ sw' = [NoSweep EXCEPT
                !.keep = sw.keep,
                !.prev = IF sw.keep
                         THEN [done |-> TRUE, now |-> sw.now, after |-> dirs,
                               failed |-> {sw.log[k].id : k \in FailedRemovals(sw.log)}]
                         ELSE NoPrev]
    /\ UNCHANGED <<osName, clock, dirs, nextId, up, gridVars, apiVars, valVars, rmVars, appVars, webVars>>

\* a reader opens the stored file (Image.open(path), fitz.open(path)): the
\* file's access time is refreshed, its directory's is not
ReadStored(i) ==
    /\ dirs[i].present /\ dirs[i].stored /\ dirs[i].hasFile
    /\ dirs[i].lastRead # clock
    /\ dirs' = [dirs EXCEPT ![i] = [@ EXCEPT !.fatime = clock, !.lastRead = clock]]
    /\ UNCHANGED <<osName, clock, nextId, up, sw, gridVars, apiVars, valVars, rmVars, appVars, webVars>>

\* time passes; a copy of an in-memory stream of at most 21 chunks is over
\* long before the clock moves by TimeStep
Tick ==
    /\ up.pc = "idle"
    /\ clock < MaxTicks * TimeStep
    /\ clock' = clock + TimeStep
    /\ UNCHANGED <<osName, dirs, nextId, up, sw, gridVars, apiVars, valVars, rmVars, appVars, webVars>>

InitStore ==
    /\ AppIdle
    /\ rm = NoRemove
    /\ osName \in {"posix", "nt"}
    /\ clock = 0
    /\ dirs = [i \in RootIds |-> NoDir]
    /\ nextId = 1
    /\ up = NoUpload
    /\ sw = NoSweep
    /\ GridIdle
    /\ ApiIdle
    /\ ValIdle
    /\ WebIdle

NextStore ==
    \/ \E f \in Uploads : IngestStart(f)
    \/ CopyChunk
    \/ SafeRemove
    \/ IngestReturn
    \/ SweepStart
    \/ \E i \in RootIds : SweepItem(i)
    \/ SweepEnd
    \/ \E i \in UploadIds : ReadStored(i)
    \/ Tick

SpecStore == InitStore /\ [][NextStore]_vars

\* ------------------------------- file_utils.py: the sweep among uploads
\* the store with few kinds of upload and, possibly, a plain file in the
\* root, so that a sweep meets files, directories and vanished entries
SweepUploads ==
    {f \in [stem : {"../b"}, suffix : {".png", ".PDF"}, size : {0},
            bytes : {COPY_CHUNK + 1, MAX_FILE_SIZE_BYTES + 1}] :
        f.bytes > MAX_FILE_SIZE_BYTES => f.suffix = ".png"}

StrayFile == [NoDir EXCEPT !.present = TRUE, !.is_dir = FALSE]

InitSweep ==
    /\ AppIdle
    /\ rm = NoRemove
    /\ osName \in {"posix", "nt"}
    /\ clock = 0
    /\ dirs \in {[i \in RootIds |-> IF i = 0 THEN d0 ELSE NoDir] : d0 \in {NoDir, StrayFile}}
    /\ nextId = 1
    /\ up = NoUpload
    /\ sw = NoSweep
    /\ GridIdle
    /\ ApiIdle
    /\ ValIdle
    /\ WebIdle

NextSweep ==
    \/ \E f \in SweepUploads : IngestStart(f)
    \/ CopyChunk
    \/ SafeRemove
    \/ IngestReturn
    \/ SweepStart
    \/ \E i \in RootIds : SweepItem(i)
    \/ SweepEnd
    \/ \E i \in UploadIds : ReadStored(i)
    \/ Tick

SpecSweep == InitSweep /\ [][NextSweep]_vars

\* ------------------------------------ file_utils.py: the declared name
\* declared names, one string per character; "ACUTE" is U+0301, the
\* combining acute accent, "e-acute" is U+00E9
DeclaredNames ==
    { <<"a", ".", "p", "n", "g">>, <<"a", ".", "P", "N", "G">>,
      <<"a", ".", "J", "p", "g">>, <<"a", ".", "J", "P", "E", "G">>,
      <<"a", ".", "W", "e", "b", "P">>, <<"a", ".", "P", "D", "F">>,
      <<"a", ".", "e", "x", "e">>, <<"a", ".", "g", "i", "f">>,
      <<"a">>, <<".", "p", "n", "g">>, <<"a", ".", "p", "n", "g", ".">>,
      <<"a", ".", "p", "d", "f", ".", "e", "x", "e">>,
      <<"a", ".", "e", "x", "e", ".", "P", "D", "F">>,
      <<"e", "ACUTE", ".", "p", "n", "g">>,
      <<"a", ".", "p", "n", "g", "ACUTE">> }

\* unicodedata.normalize('NFC', name) on the characters of the model: e
\* followed by the combining accent is composed, g followed by it as well
\* (U+01F5), every other character is kept
RECURSIVE nfc(_)
nfc(name) ==
    IF Len(name) < 2 THEN name
    ELSE IF name[1] = "e" /\ name[2] = "ACUTE" THEN <<"e-acute">> \o nfc(SubSeq(name, 3, Len(name)))
    ELSE IF name[1] = "g" /\ name[2] = "ACUTE" THEN <<"g-acute">> \o nfc(SubSeq(name, 3, Len(name)))
    ELSE <<name[1]>> \o nfc(Tail(name))

\* str.rfind('.'): the last index holding a dot, 0 when there is none
rfind_dot(name) ==
    IF \E k \in 1..Len(name) : name[k] = "."
    THEN CHOOSE k \in 1..Len(name) :
            name[k] = "." /\ \A j \in (k + 1)..Len(name) : name[j] # "."
    ELSE 0

\* Path(name).suffix: from the last dot on, unless that dot is the first or
\* the last character of the name
path_suffix(name) ==
    LET i == rfind_dot(name)
    IN  IF 1 < i /\ i < Len(name) THEN SubSeq(name, i, Len(name)) ELSE <<>>

\* the suffix as one string, as the store's records hold it
SuffixString(sfx) ==
    CASE sfx = <<>> -> ""
      [] sfx = <<".", "p", "n", "g">> -> ".png"
      [] sfx = <<".", "P", "N", "G">> -> ".PNG"
      [] sfx = <<".", "J", "p", "g">> -> ".Jpg"
      [] sfx = <<".", "J", "P", "E", "G">> -> ".JPEG"
      [] sfx = <<".", "W", "e", "b", "P">> -> ".WebP"
      [] sfx = <<".", "P", "D", "F">> -> ".PDF"
      [] sfx = <<".", "e", "x", "e">> -> ".exe"
      [] sfx = <<".", "g", "i", "f">> -> ".gif"
      [] sfx = <<".", "p", "n", "g-acute">> -> ".png-acute"
      [] OTHER -> "?"

\* uploaded_file for each declared name: lines 95-96 up to .lower()
NamedUploads ==
    {[stem |-> "n", suffix |-> SuffixString(path_suffix(nfc(name))),
      size |-> size, bytes |-> COPY_CHUNK + 1] :
        name \in DeclaredNames, size \in DeclaredSizes}

NextNames ==
    \/ \E f \in NamedUploads : IngestStart(f)
    \/ CopyChunk
    \/ IngestReturn

SpecNames == InitStore /\ [][NextNames]_vars

\* ------------------------------------------------------------------ app.py
MAX_FILE_SIZE == 20 * 1024 * 1024

MAX_PIXELS == 20000000

ALLOWED_FORMATS == {"JPEG", "PNG", "WEBP"}

\* src.read(1024 * 1024) of copy_limited
READ_CHUNK == 1024 * 1024

\* the file selected in the uploader: the bytes of its stream, the format
\* Pillow finds in it and its pixel count
AppUploads ==
    {f \in [bytes : {READ_CHUNK + 1, MAX_FILE_SIZE, MAX_FILE_SIZE + 1},
            format : {"PNG", "GIF"}, pixels : {MAX_PIXELS, MAX_PIXELS + 1}] :
        f.bytes # READ_CHUNK + 1 => (f.format = "PNG" /\ f.pixels = MAX_PIXELS)}

\* a plausible slip: the copy is not limited at all
limit_exceeded_never(total, limit) == FALSE

\* copy_limited line 34
limit_exceeded(total, limit) == total > limit

\* app.validate_image_security: the format test, then the pixel test
app_validate_image_security(f) ==
    IF f.format \notin ALLOWED_FORMATS THEN "ValueError"
    ELSE IF f.pixels > MAX_PIXELS THEN "ValueError"
    ELSE "ok"

\* what os.remove of an existing file can do: on Windows it raises
\* PermissionError while any handle on the file is open
OsRemoveOutcomes == IF osName = "nt" THEN {"ok", "PermissionError"} ELSE {"ok"}

\* if current_file_path and os.path.exists(...): try os.remove(...) except
\* OSError: pass
remove_current(files, path, outcome) ==
    IF path # 0 /\ files[path].present /\ outcome = "ok"
    THEN [files EXCEPT ![path].present = FALSE]
    ELSE files

\* f"{uuid.uuid4()}.tmp": a name no earlier upload was stored under
FreshTmp == CHOOSE i \in AppFileIds : ~tmp[i].made /\ \A j \in AppFileIds : ~tmp[j].made => i <= j

\* on_change of the uploader, shown only in ui_step "upload":
\* handle_file_upload_secure up to the first read (lines 179-197)
UploadChanged(f) ==
    /\ hd.pc = "idle"
    /\ ses.ui_step = "upload"
    /\ \E i \in AppFileIds : ~tmp[i].made
    /\ \E outcome \in OsRemoveOutcomes :
         tmp' = remove_current(tmp, ses.current_file_path, outcome)
    /\ hd' = [NoHandler EXCEPT !.pc = "copy", !.uploaded = f, !.id = FreshTmp]
    /\ UNCHANGED <<ses, gridVars, apiVars, valVars, storeVars, rmVars, webVars>>

\* one iteration of copy_limited (lines 30-36) into the file of the private
\* temporary directory; an empty read returns
CopyLimitedChunk ==
    /\ hd.pc = "copy"
    /\ LET chunk == read(hd.uploaded.bytes, hd.total, READ_CHUNK)
           total == hd.total + chunk
       IN  IF chunk = 0
           THEN hd' = [hd EXCEPT !.pc = "validate"]
           ELSE IF limit_exceeded(total, MAX_FILE_SIZE)
           THEN hd' = [hd EXCEPT !.pc = "failed", !.total = total]
           ELSE hd' = [hd EXCEPT !.total = total, !.written = @ + chunk]
    /\ UNCHANGED <<ses, tmp, gridVars, apiVars, valVars, storeVars, rmVars, webVars>>

\* line 201
ValidateCopied ==
    /\ hd.pc = "validate"
    /\ hd' = [hd EXCEPT !.pc = IF app_validate_image_security(hd.uploaded) = "ok"
                               THEN "move" ELSE "failed"]
    /\ UNCHANGED <<ses, tmp, gridVars, apiVars, valVars, storeVars, rmVars, webVars>>

\* lines 205-213: shutil.move to <tempdir>/legato_<uuid>.tmp, then the
\* session is pointed at the file; the private directory is wiped
MoveAndExpose ==
    /\ hd.pc = "move"
    /\ tmp' = [tmp EXCEPT ![hd.id] = [made |-> TRUE, present |-> TRUE, len |-> hd.written,
                                      upload |-> hd.uploaded, atime |-> clock]]
    /\ ses' = [ui_step |-> "process", current_file_path |-> hd.id, error_msg |-> ""]
    /\ hd' = NoHandler
    /\ UNCHANGED <<gridVars, apiVars, valVars, storeVars, rmVars, webVars>>

\* lines 215-218: the except branch; the private directory is wiped with
\* whatever was copied into it
UploadFailed ==
    /\ hd.pc = "failed"
    /\ ses' = [ses EXCEPT !.ui_step = "error", !.error_msg = "upload failed"]
    /\ hd' = NoHandler
    /\ UNCHANGED <<tmp, gridVars, apiVars, valVars, storeVars, rmVars, webVars>>

\* handle_remove_file, behind the buttons of the process and error steps
RemoveFile ==
    /\ hd.pc = "idle"
    /\ ses.ui_step \in {"process", "error"}
    /\ \E outcome \in OsRemoveOutcomes :
         tmp' = remove_current(tmp, ses.current_file_path, outcome)
    /\ ses' = InitSession
    /\ UNCHANGED <<hd, gridVars, apiVars, valVars, storeVars, rmVars, webVars>>

\* line 313: Image.open(current_file_path) of the process step
ViewImage ==
    /\ hd.pc = "idle"
    /\ ses.ui_step = "process"
    /\ ses.current_file_path # 0
    /\ tmp[ses.current_file_path].present
    /\ tmp[ses.current_file_path].atime # clock
    /\ tmp' = [tmp EXCEPT ![ses.current_file_path].atime = clock]
    /\ UNCHANGED <<ses, hd, gridVars, apiVars, valVars, storeVars, rmVars, webVars>>

\* the browser session ends and another begins: init_session_state fills an
\* empty st.session_state; nothing runs for the session that ended
NewSession ==
    /\ hd.pc = "idle"
    /\ ses # InitSession
    /\ ses' = InitSession
    /\ UNCHANGED <<hd, tmp, gridVars, apiVars, valVars, storeVars, rmVars, webVars>>

\* the uploads save_uploaded_file is given next to the application
SideUploads ==
    [stem : {"a"}, suffix : {".png"}, size : {0},
     bytes : {COPY_CHUNK + 1, MAX_FILE_SIZE_BYTES + 1}]

InitApp ==
    /\ ses = InitSession
    /\ hd = NoHandler
    /\ tmp = [i \in AppFileIds |-> NoTmp]
    /\ rm = NoRemove
    /\ osName \in {"posix", "nt"}
    /\ clock = 0
    /\ dirs = [i \in RootIds |-> NoDir]
    /\ nextId = 1
    /\ up = NoUpload
    /\ sw = NoSweep
    /\ GridIdle
    /\ ApiIdle
    /\ ValIdle
    /\ WebIdle

NextApp ==
    \/ \E f \in AppUploads : UploadChanged(f)
    \/ CopyLimitedChunk
    \/ ValidateCopied
    \/ MoveAndExpose
    \/ UploadFailed
    \/ RemoveFile
    \/ NewSession
    \/ \E f \in SideUploads : IngestStart(f)
    \/ CopyChunk
    \/ SafeRemove
    \/ IngestReturn

SpecApp == InitApp /\ [][NextApp]_vars

\* ------------------------------------------ app.py under the sweeper
\* the application over a long time, next to calls of cleanup_stale_files on
\* the session root and an upload stored under that root
ReclaimUploads ==
    [bytes : {READ_CHUNK + 1}, format : {"PNG", "GIF"}, pixels : {MAX_PIXELS}]

RootUploads == [stem : {"a"}, suffix : {".png"}, size : {0}, bytes : {COPY_CHUNK + 1}]

\* a recorded time seen one TimeStep later; -1 is "never"
Back(t) == IF t < 0 THEN t ELSE Max(0, t - TimeStep)

\* time passes beyond the last clock reading the model counts: the reading
\* is kept and every time recorded on disk is moved back by TimeStep instead,
\* so that ages keep growing until they are recorded as MaxTicks * TimeStep,
\* which is beyond the TTL
Later ==
    /\ clock = MaxTicks * TimeStep
    /\ up.pc = "idle" /\ sw.pc = "idle" /\ hd.pc = "idle"
    /\ dirs' = [i \in RootIds |->
                  IF dirs[i].present
                  THEN [dirs[i] EXCEPT !.atime = Back(@), !.fatime = Back(@),
                                       !.created = Back(@), !.lastRead = Back(@)]
                  ELSE dirs[i]]
    /\ tmp' = [i \in AppFileIds |->
                 IF tmp[i].present THEN [tmp[i] EXCEPT !.atime = Back(@)] ELSE tmp[i]]
    /\ UNCHANGED <<osName, clock, nextId, up, sw, rm, ses, hd, gridVars, apiVars, valVars, webVars>>

NextReclaim ==
    \/ \E f \in ReclaimUploads : UploadChanged(f)
    \/ CopyLimitedChunk
    \/ ValidateCopied
    \/ MoveAndExpose
    \/ UploadFailed
    \/ RemoveFile
    \/ ViewImage
    \/ NewSession
    \/ \E f \in RootUploads : IngestStart(f)
    \/ CopyChunk
    \/ IngestReturn
    \/ SweepStart
    \/ \E i \in RootIds : SweepItem(i)
    \/ SweepEnd
    \/ Tick
    \/ Later

\* the application keeps running, time advances, every started handler and
\* copy runs to its end, and cleanup_stale_files is called again and again
SpecReclaim ==
    /\ InitApp
    /\ [][NextReclaim]_vars
    /\ WF_vars(Tick) /\ WF_vars(Later)
    /\ WF_vars(SweepStart)
    /\ \A i \in RootIds : WF_vars(SweepItem(i))
    /\ WF_vars(SweepEnd)
    /\ WF_vars(CopyChunk) /\ WF_vars(IngestReturn)
    /\ WF_vars(CopyLimitedChunk) /\ WF_vars(ValidateCopied)
    /\ WF_vars(MoveAndExpose) /\ WF_vars(UploadFailed)

\* ------------------------------ file_utils.py: one sweep after another
\* cleanup_stale_files called again and again over a root that uploads fill,
\* with the last ended sweep kept for comparison
TwiceUploads == [stem : {"a"}, suffix : {".png"}, size : {0}, bytes : {COPY_CHUNK + 1}]

InitTwice ==
    /\ AppIdle
    /\ rm = NoRemove
    /\ osName \in {"posix", "nt"}
    /\ clock = 0
    /\ dirs \in {[i \in RootIds |-> IF i = 0 THEN d0 ELSE NoDir] : d0 \in {NoDir, StrayFile}}
    /\ nextId = 1
    /\ up = NoUpload
    /\ sw = [NoSweep EXCEPT !.keep = TRUE]
    /\ GridIdle
    /\ ApiIdle
    /\ ValIdle
    /\ WebIdle

NextTwice ==
    \/ \E f \in TwiceUploads : IngestStart(f)
    \/ CopyChunk
    \/ IngestReturn
    \/ SweepStart
    \/ \E i \in RootIds : SweepItem(i)
    \/ SweepEnd
    \/ Tick

SpecTwice == InitTwice /\ [][NextTwice]_vars

\* ------------------------------------------- file_utils.py: safe_remove
\* a call of safe_remove on its own: the path exists or not, is a directory
\* or a file, and each removal attempt succeeds or raises
RemoveCalls ==
    [pc : {"call"}, exists : BOOLEAN, is_dir : BOOLEAN,
     outcomes : [1..SAFE_REMOVE_ATTEMPTS -> {"ok", "PermissionError", "OSError"}]]

InitRemove ==
    /\ AppIdle
    /\ rm \in RemoveCalls
    /\ osName = "posix"
    /\ clock = 0
    /\ dirs = [i \in RootIds |-> NoDir]
    /\ nextId = 1
    /\ up = NoUpload
    /\ sw = NoSweep
    /\ GridIdle
    /\ ApiIdle
    /\ ValIdle
    /\ WebIdle

RemoveCall ==
    /\ rm.pc = "call"
    /\ rm' = [pc |-> "returned", exists |-> rm.exists, is_dir |-> rm.is_dir,
              outcomes |-> rm.outcomes,
              res |-> safe_remove(rm.exists, rm.outcomes)]
    /\ UNCHANGED <<gridVars, apiVars, valVars, storeVars, appVars, webVars>>

NextRemove == RemoveCall

SpecRemove == InitRemove /\ [][NextRemove]_vars

\* ------------------------------------------------------------ grid inputs
RowIndices == {0, 1, PREVIEW_ROW_CAP - 1, PREVIEW_ROW_CAP}

CellTexts == {<<>>, <<"=">>, <<"+">>, <<"-">>, <<"@">>, <<"a">>, <<"=", "a">>}

Cells ==
    [row_index : RowIndices, col_index : 0..MaxCol,
     row_span : 1..MaxSpan, col_span : 1..MaxSpan, text : CellTexts]

\* a smaller cell domain for layouts one cell longer
SmallCells ==
    [row_index : {0, 1}, col_index : 0..MaxCol,
     row_span : 1..MaxSpan, col_span : 1..MaxSpan, text : {<<"a">>, <<"=">>}]

Layouts ==
    UNION {[1..n -> Cells] : n \in 0..MaxCells} \cup [1..(MaxCells + 1) -> SmallCells]

InitGrid ==
    /\ AppIdle
    /\ raw = NoRaw
    /\ layout \in Layouts
    /\ result = NoResult
    /\ ApiIdle
    /\ ValIdle
    /\ StoreIdle
    /\ WebIdle

RenderExcel ==
    /\ result = NoResult
    /\ result' = render_excel(layout)
    /\ UNCHANGED <<raw, layout, apiVars, valVars, storeVars, rmVars, appVars, webVars>>

NextGrid == RenderExcel

SpecGrid == InitGrid /\ [][NextGrid]_vars

\* ------------------------------------------------ models.py: CellData
\* a field of a raw cell record: absent, null, or a value
Missing == [tag |-> "missing"]

Null == [tag |-> "null"]

Val(v) == [tag |-> "val", v |-> v]

\* records with the absent and the null fields the other way round
SwappedRawCells ==
    [text : {Missing}, row_index : {Null}, col_index : {Missing},
     row_span : {Null}, col_span : {Missing, Val(1)}]

RawCells ==
    [text : {Null, Val(<<"=", "a">>)},
     row_index : {Missing, Val(-1), Val(0), Val(1)},
     col_index : {Null, Val(-1), Val(0)},
     row_span : {Missing, Val(0), Val(2)},
     col_span : {Null, Val(-1), Val(2)}] \cup SwappedRawCells

\* the texts of MOCK_RESPONSE, character by character
HeaderMerged == <<"H", "e", "a", "d", "e", "r", " ", "M", "e", "r", "g", "e", "d">>

Row1Col1 == <<"R", "o", "w", " ", "1", " ", "C", "o", "l", " ", "1">>

Row1Col2 == <<"R", "o", "w", " ", "1", " ", "C", "o", "l", " ", "2">>

RawRecord(r, c, rs, cs, text) ==
    [text |-> Val(text), row_index |-> Val(r), col_index |-> Val(c),
     row_span |-> Val(rs), col_span |-> Val(cs)]

\* analyzer_service.MOCK_RESPONSE["cells"], what analyze_image answers with
\* when no API key is set
MOCK_RESPONSE ==
    <<RawRecord(0, 0, 1, 2, HeaderMerged),
      RawRecord(1, 0, 1, 1, Row1Col1),
      RawRecord(1, 1, 1, 1, Row1Col2)>>

RawLayouts == UNION {[1..n -> RawCells] : n \in 0..MaxRawCells} \cup {MOCK_RESPONSE}

\* the value a field has after pre_process_defaults
FieldOr(field, default) == IF field.tag = "val" THEN field.v ELSE default

\* validator, mode 'before': missing and null fields get their defaults
pre_process_defaults(data) ==
    [text |-> FieldOr(data.text, <<>>),
     row_index |-> FieldOr(data.row_index, 0),
     col_index |-> FieldOr(data.col_index, 0),
     row_span |-> FieldOr(data.row_span, 1),
     col_span |-> FieldOr(data.col_span, 1)]

\* a plausible slip: only the row span is clamped
set_defaults_rows_only(cell) ==
    [cell EXCEPT !.row_span = IF @ < 1 THEN 1 ELSE @]

\* validator, mode 'after': spans below 1 become 1
set_defaults(cell) ==
    [cell EXCEPT !.row_span = IF @ < 1 THEN 1 ELSE @,
                 !.col_span = IF @ < 1 THEN 1 ELSE @]

CellData(data) == set_defaults(pre_process_defaults(data))

InitCells ==
    /\ AppIdle
    /\ raw \in [cells : RawLayouts, parsed : {FALSE}]
    /\ layout = <<>>
    /\ result = NoResult
    /\ ApiIdle
    /\ ValIdle
    /\ StoreIdle
    /\ WebIdle

\* TableLayout.model_validate_json: every record becomes a CellData
ParseLayout ==
    /\ ~raw.parsed
    /\ raw' = [raw EXCEPT !.parsed = TRUE]
    /\ layout' = [i \in 1..Len(raw.cells) |-> CellData(raw.cells[i])]
    /\ UNCHANGED <<result, apiVars, valVars, storeVars, rmVars, appVars, webVars>>

RenderParsed ==
    /\ raw.parsed
    /\ RenderExcel

NextCells == ParseLayout \/ RenderParsed

SpecCells == InitCells /\ [][NextCells]_vars

\* ------------------------------------------------------- grid properties
Rendered == result.kind = "result"

InputOrders(s) ==
    LET n == Len(s)
        bij == {f \in [1..n -> 1..n] : \A i, j \in 1..n : i # j => f[i] # f[j]}
    IN  {[i \in 1..n |-> s[f[i]]] : f \in bij}

PlanSet(res) == {res.plan[i] : i \in 1..Len(res.plan)}

EntryRect(e) == Rect(e.row, e.col, e.end_row, e.end_col)

DistinctOrigins(cells) ==
    \A i, j \in 1..Len(cells) :
        i # j => <<cells[i].row_index, cells[i].col_index>>
                    # <<cells[j].row_index, cells[j].col_index>>

\* the first cell of the input with a given 0-based origin
FirstWithOrigin(cells, ri, ci) ==
    LET idx == {i \in 1..Len(cells) : cells[i].row_index = ri /\ cells[i].col_index = ci}
    IN  cells[CHOOSE i \in idx : \A j \in idx : i <= j]

\* the neutralised form of a text, stated independently of the code
Neutralized(t) ==
    IF t # <<>> /\ t[1] \in {"=", "+", "-", "@"} THEN <<"'">> \o t ELSE t

\* C1 (as claimed): for every collection of cells, duplicate origins included,
\* every permutation of the input yields the same plan (origins, texts, merges).
C1_OrderIndependentAll ==
    Rendered =>
        \A p \in InputOrders(layout) : PlanSet(render_excel(p)) = PlanSet(result)

\* C1 (amended): for every collection of cells with pairwise distinct origins
\* (overlapping spans allowed), every permutation of the input yields the
\* identical plan, preview and row count.
C1_OrderIndependentDistinctOrigins ==
    (Rendered /\ DistinctOrigins(layout)) =>
        \A p \in InputOrders(layout) : render_excel(p) = result

\* distinct origins, an input that is not in sorted order, and an overlap
\* that made the loop skip a cell or fall back from a merge
C1_Witness ==
    /\ Rendered
    /\ DistinctOrigins(layout)
    /\ Len(layout) >= 2
    /\ sorted_cells(layout) # layout
    /\ \/ Len(result.plan) < Len(layout)
       \/ \E i \in 1..Len(result.plan) :
            LET e == result.plan[i]
                x == FirstWithOrigin(layout, e.row - 1, e.col - 1)
            IN  ~e.merge /\ (x.row_span > 1 \/ x.col_span > 1)

\* C2: no two plan entries share a write origin and the rectangles of the
\* emitted entries (merge extent, or the single coordinate of a plain write)
\* are pairwise disjoint.
C2_DisjointRectangles ==
    Rendered =>
        \A i, j \in 1..Len(result.plan) :
            i # j =>
                /\ <<result.plan[i].row, result.plan[i].col>>
                       # <<result.plan[j].row, result.plan[j].col>>
                /\ EntryRect(result.plan[i]) \cap EntryRect(result.plan[j]) = {}

\* a plan with an applied merge next to another entry, from an input holding
\* a duplicate origin or an overlapping span
C2_Witness ==
    /\ Rendered
    /\ Len(result.plan) >= 2
    /\ \E i \in 1..Len(result.plan) : result.plan[i].merge
    /\ \/ ~DistinctOrigins(layout)
       \/ \E i \in 1..Len(result.plan) :
            LET e == result.plan[i]
                x == FirstWithOrigin(layout, e.row - 1, e.col - 1)
            IN  ~e.merge /\ (x.row_span > 1 \/ x.col_span > 1)

\* C8: every text emitted into the plan is the original text of the emitted
\* cell, prefixed by a single quote exactly when it starts with = + - or @,
\* and every non-empty preview position holds the text of the plan entry
\* written at that position.
C8_SanitizedEverywhere ==
    Rendered =>
        /\ \A i \in 1..Len(result.plan) :
             LET e == result.plan[i]
             IN  e.text = Neutralized(FirstWithOrigin(layout, e.row - 1, e.col - 1).text)
        /\ \A i \in 1..Len(result.preview) : \A j \in 1..Len(result.preview[i]) :
             \/ result.preview[i][j] = <<>>
             \/ \E k \in 1..Len(result.plan) :
                  /\ result.plan[k].row = i /\ result.plan[k].col = j
                  /\ result.preview[i][j] =
                        Neutralized(FirstWithOrigin(layout, i - 1, j - 1).text)

\* a rendered layout with a neutralised '@' text in plan and preview and a
\* text emitted unchanged
C8_Witness ==
    /\ Rendered
    /\ \E i \in 1..Len(result.plan) :
         /\ result.plan[i].text = <<"'", "@">>
         /\ result.plan[i].row <= Len(result.preview)
         /\ result.preview[result.plan[i].row][result.plan[i].col] = <<"'", "@">>
    /\ \E i \in 1..Len(result.plan) : result.plan[i].text = <<"a">>

\* C9 (as claimed): every input cell with row_index < 50 has its sanitized
\* text in the preview at (row_index, col_index), skipped cells included.
C9_PreviewHoldsEveryCell ==
    Rendered =>
        \A k \in 1..Len(layout) :
            layout[k].row_index < PREVIEW_ROW_CAP =>
                /\ layout[k].row_index + 1 <= Len(result.preview)
                /\ layout[k].col_index + 1 <= Len(result.preview[layout[k].row_index + 1])
                /\ result.preview[layout[k].row_index + 1][layout[k].col_index + 1]
                       = sanitize_for_excel(layout[k].text)

\* C9 (amended): the preview holds, at (row_index, col_index), the sanitized
\* text of every cell the plan emits with row_index < 50, merged or fallen
\* back from a merge; a cell skipped because its origin was occupied leaves
\* no text in the preview, and every other position is the empty string.
C9_PreviewHoldsEmittedCells ==
    Rendered =>
        /\ \A k \in 1..Len(result.plan) :
             LET e == result.plan[k]
             IN  e.row - 1 < PREVIEW_ROW_CAP =>
                    /\ e.row <= Len(result.preview)
                    /\ e.col <= Len(result.preview[e.row])
                    /\ result.preview[e.row][e.col] = e.text
        /\ \A i \in 1..Len(result.preview) : \A j \in 1..Len(result.preview[i]) :
             (\A k \in 1..Len(result.plan) :
                  <<result.plan[k].row, result.plan[k].col>> # <<i, j>>)
                => result.preview[i][j] = <<>>

\* a fallback entry with text shown in the preview, and a skipped cell with
\* a different text at a position the preview covers
C9_Witness ==
    /\ Rendered
    /\ \E k \in 1..Len(result.plan) :
         LET e == result.plan[k]
             x == FirstWithOrigin(layout, e.row - 1, e.col - 1)
         IN  /\ ~e.merge /\ (x.row_span > 1 \/ x.col_span > 1)
             /\ e.text # <<>>
             /\ e.row - 1 < PREVIEW_ROW_CAP
             /\ result.preview[e.row][e.col] = e.text
    /\ \E k \in 1..Len(layout) :
         /\ layout[k].row_index + 1 <= Len(result.preview)
         /\ layout[k].col_index + 1 <= Len(result.preview[layout[k].row_index + 1])
         /\ layout[k].text # <<>>
         /\ result.preview[layout[k].row_index + 1][layout[k].col_index + 1]
                # sanitize_for_excel(layout[k].text)

\* C10: a plan entry made from a cell larger than 1x1 carries the cell's full
\* (sanitized) text; it is a plain write occupying only its origin exactly
\* when some other coordinate of its rectangle was occupied by an earlier
\* entry, and otherwise a merge over exactly the full rectangle; the final
\* occupancy is the union of the emitted rectangles and holds every origin.
C10_MergeOrFallback ==
    Rendered =>
        /\ \A i \in 1..Len(result.plan) :
             LET e == result.plan[i]
                 x == FirstWithOrigin(layout, e.row - 1, e.col - 1)
                 full == Rect(e.row, e.col, e.row + x.row_span - 1, e.col + x.col_span - 1)
                 before == UNION {EntryRect(result.plan[j]) : j \in 1..(i - 1)}
             IN  (x.row_span > 1 \/ x.col_span > 1) =>
                    /\ e.text = Neutralized(x.text)
                    /\ <<e.row, e.col>> \notin before
                    /\ IF (full \ {<<e.row, e.col>>}) \cap before # {}
                       THEN ~e.merge /\ EntryRect(e) = {<<e.row, e.col>>}
                       ELSE e.merge /\ EntryRect(e) = full
        /\ result.occupied = UNION {EntryRect(result.plan[i]) : i \in 1..Len(result.plan)}
        /\ \A k \in 1..Len(layout) :
             <<layout[k].row_index + 1, layout[k].col_index + 1>> \in result.occupied

\* a layout whose plan holds both a fallback write and an applied merge
C10_Witness ==
    /\ Rendered
    /\ \E i \in 1..Len(result.plan) :
         LET e == result.plan[i]
             x == FirstWithOrigin(layout, e.row - 1, e.col - 1)
         IN  ~e.merge /\ (x.row_span > 1 \/ x.col_span > 1) /\ e.text # <<>>
    /\ \E i \in 1..Len(result.plan) : result.plan[i].merge

\* ------------------------------------------------------ store properties
Oversize(u) == u.size > MAX_FILE_SIZE_BYTES \/ u.bytes > MAX_FILE_SIZE_BYTES

Residue(u) == u.id # 0 /\ dirs[u.id].present

\* C4: when save_uploaded_file has finished for an upload whose declared
\* size or whose stream exceeds MAX_FILE_SIZE_BYTES, it has raised the
\* size-limit error and the upload's directory, if one was made, is gone.
\* (Stated for uploads whose suffix is on the allow-list: an oversize stream
\* under a declared size within the limit and a suffix off the list is
\* refused with the extension error before any byte is read.)
C4_OversizeFailsClean ==
    (/\ up.pc = "done"
     /\ Oversize(up)
     /\ LowerSuffix(up.suffix) \in ALLOWED_EXTENSIONS) =>
        (up.err = "SizeLimit" /\ ~Residue(up))

\* C6: whenever cleanup_stale_files has removed a stored upload, the upload
\* was created more than TEMP_TTL_SECONDS before the removal and, if it was
\* ever read, last read more than TEMP_TTL_SECONDS before the removal.
C6_SweepSparesRecentUploads ==
    \A i \in UploadIds :
        (dirs[i].stored /\ dirs[i].sweptAt >= 0) =>
            /\ dirs[i].sweptAt - dirs[i].created > TEMP_TTL_SECONDS
            /\ dirs[i].lastRead >= 0 =>
                 dirs[i].sweptAt - dirs[i].lastRead > TEMP_TTL_SECONDS

\* C7: when save_uploaded_file has finished for an upload whose declared
\* size and stream are at most MAX_FILE_SIZE_BYTES and whose suffix is on
\* the allow-list, it has raised nothing and the stored file holds exactly
\* the bytes of the stream.
C7_IngestStoresExactBytes ==
    (/\ up.pc = "done"
     /\ ~Oversize(up)
     /\ LowerSuffix(up.suffix) \in ALLOWED_EXTENSIONS) =>
        /\ up.err = ""
        /\ up.id # 0
        /\ dirs[up.id].present /\ dirs[up.id].hasFile /\ dirs[up.id].stored
        /\ ~dirs[up.id].fopen
        /\ dirs[up.id].flen = up.bytes
        /\ up.bytes > 0 => dirs[up.id].fdata = "stream"

\* an upload of exactly MAX_FILE_SIZE_BYTES under an upper-case suffix has
\* been stored in full
C7_Witness ==
    /\ up.pc = "done"
    /\ up.err = ""
    /\ up.suffix = ".PDF"
    /\ up.size = MAX_FILE_SIZE_BYTES
    /\ up.bytes = MAX_FILE_SIZE_BYTES
    /\ dirs[up.id].flen = MAX_FILE_SIZE_BYTES
    /\ dirs[up.id].fdata = "stream"

\* ------------------------------------------- grid properties, continued
IsSpanExample(cells) ==
    /\ Len(cells) = 2
    /\ \E i, j \in 1..2 :
         /\ i # j
         /\ cells[i].row_index = 0 /\ cells[i].col_index = 0
         /\ cells[i].row_span = 2 /\ cells[i].col_span = 2
         /\ cells[j].row_index = 0 /\ cells[j].col_index = 1
         /\ cells[j].row_span = 1 /\ cells[j].col_span = 1

\* C11: a cell whose 1-based origin is in the occupancy set when the loop
\* reaches it in sorted order leaves the plan and the occupancy set as they
\* were; for the cells {row 0, col 0, span 2x2} and {row 0, col 1, span 1x1},
\* in either input order, the plan is exactly one merge over rows 1-2 and
\* columns 1-2 and holds no entry at sheet coordinate (1, 2).
C11_OccupiedOriginSkipped ==
    Rendered =>
        LET sorted == sorted_cells(layout)
        IN  /\ \A k \in 1..Len(sorted) :
                 LET before == LoopAfter(sorted, k - 1)
                     after == LoopAfter(sorted, k)
                     origin == <<sorted[k].row_index + 1, sorted[k].col_index + 1>>
                 IN  origin \in before.occupied =>
                        /\ after.plan = before.plan
                        /\ after.occupied = before.occupied
            /\ IsSpanExample(layout) =>
                 /\ Len(result.plan) = 1
                 /\ result.plan[1].merge
                 /\ EntryRect(result.plan[1]) = Rect(1, 1, 2, 2)
                 /\ \A i \in 1..Len(result.plan) :
                      <<result.plan[i].row, result.plan[i].col>> # <<1, 2>>

\* the example layout has been rendered, the dropped cell carrying a text
C11_Witness ==
    /\ Rendered
    /\ IsSpanExample(layout)
    /\ \E j \in 1..2 : layout[j].col_index = 1 /\ layout[j].text = <<"a">>
    /\ Len(result.plan) = 1

\* C12: once the cell records have been parsed and render_excel has run on
\* them, it has returned a result, whatever anomalies the records held
\* (negative indices, spans below 1, missing or null fields, overlapping
\* spans, duplicate origins).
C12_RenderNeverRaises ==
    (raw.parsed /\ result # NoResult) => result.kind = "result"

\* C13: for an empty cell collection render_excel returns a result whose
\* plan is empty (no cell written, no merge), whose preview has 0 rows and
\* 0 columns, and whose row count is 0.
C13_EmptyLayoutEmptyResult ==
    (result # NoResult /\ layout = <<>>) =>
        /\ result.kind = "result"
        /\ result.plan = <<>>
        /\ result.row_count = 0
        /\ Len(result.preview) = 0

\* the number of attempts before the first that does not raise PermissionError
RECURSIVE LeadingLocked(_, _)
LeadingLocked(outcomes, k) ==
    IF k > Len(outcomes) \/ outcomes[k] # "PermissionError" THEN 0
    ELSE 1 + LeadingLocked(outcomes, k + 1)

\* C19: safe_remove returns without an exception; it attempts nothing when
\* the path is gone; otherwise it attempts a removal once more after each
\* permission error, three times at most, removes the path exactly when the
\* last attempt succeeded, and stops without removing after the third
\* permission error or after the first other error.
C19_SafeRemoveGivesUpSilently ==
    rm.pc = "returned" =>
        LET n == LeadingLocked(rm.outcomes, 1)
        IN  /\ ~rm.res.escaped
            /\ rm.res.tries <= 3
            /\ ~rm.exists => (rm.res.tries = 0 /\ ~rm.res.removed)
            /\ rm.exists =>
                 /\ rm.res.tries = (IF n = 3 THEN 3 ELSE n + 1)
                 /\ rm.res.removed <=> (n < 3 /\ rm.outcomes[n + 1] = "ok")

\* a call that met two permission errors and then another error has
\* returned after its third attempt, the path still there
C19_Witness ==
    /\ rm.pc = "returned"
    /\ rm.exists
    /\ rm.outcomes = <<"PermissionError", "PermissionError", "OSError">>
    /\ rm.res.tries = 3
    /\ ~rm.res.removed

\* ------------------------------------------------------ sweep properties
LogIds == {sw.log[k].id : k \in 1..Len(sw.log)}

\* C14: of the root's entries a sweep has examined without an error, it has
\* removed exactly those, file or directory, whose last-access age at the
\* time the sweep took exceeds TEMP_TTL_SECONDS (3600 s); an entry whose age
\* is at most that is left in place; and every entry of the listing is
\* examined before the sweep ends.
C14_SweepRemovesExactlyExpired ==
    sw.pc = "scan" =>
        /\ \A k \in 1..Len(sw.log) :
             LET e == sw.log[k]
             IN  ~e.error =>
                    /\ e.removed <=> e.age > 3600
                    /\ e.removed => ~dirs[e.id].present
        /\ sw.todo = {} => LogIds = sw.snap

\* one sweep has removed an expired plain file and an expired directory and
\* has left in place a directory whose age is exactly the TTL
C14_Witness ==
    /\ sw.pc = "scan"
    /\ \E a, b, c \in 1..Len(sw.log) :
         /\ sw.log[a].removed /\ ~dirs[sw.log[a].id].is_dir
         /\ sw.log[b].removed /\ dirs[sw.log[b].id].is_dir
         /\ ~sw.log[c].removed /\ ~sw.log[c].error
         /\ sw.log[c].age = TEMP_TTL_SECONDS
         /\ dirs[sw.log[c].id].present

\* C15: a sweep in progress has examined every entry of its listing that is
\* no longer waiting, each once, whatever errors it met on the way (an
\* entry that vanished, a removal that failed); it is never cut short, and
\* every expired entry it could examine without error has been removed.
C15_SweepAbsorbsErrors ==
    /\ sw.pc \in {"idle", "scan"}
    /\ sw.pc = "scan" =>
        /\ sw.todo \subseteq sw.snap
        /\ LogIds = sw.snap \ sw.todo
        /\ Len(sw.log) = Cardinality(sw.snap \ sw.todo)
        /\ \A k \in 1..Len(sw.log) :
             (~sw.log[k].error /\ sw.log[k].age > TEMP_TTL_SECONDS) => sw.log[k].removed

\* a sweep met an entry that had vanished since the listing, went on, and
\* removed an expired entry after it
C15_Witness ==
    /\ sw.pc = "scan"
    /\ \E a, b \in 1..Len(sw.log) :
         /\ a < b
         /\ sw.log[a].error /\ ~dirs[sw.log[a].id].present
         /\ sw.log[b].removed

\* the file of a stored upload, as a later ingest could alter it
StoredFile(d) == <<d.hasFile, d.fname, d.flen, d.fdata>>

StoredNow(i) == dirs[i].present /\ dirs[i].stored

\* C20: every stored upload has a sub-directory of its own that no other
\* ingest used, holding its one file named <id><validated extension> with
\* nothing of the declared stem; and no step changes the file of a stored
\* upload other than by removing its directory
C20_OwnDirectoryOneFile ==
    /\ [](\A i \in UploadIds :
            /\ dirs[i].owners <= 1
            /\ StoredNow(i) =>
                 /\ dirs[i].is_dir /\ dirs[i].hasFile
                 /\ \E sfx \in ALLOWED_EXTENSIONS : dirs[i].fname = <<i, sfx>>
            /\ (up.pc = "done" /\ up.err = "" /\ up.id = i /\ dirs[i].present) =>
                 dirs[i].fname = <<i, LowerSuffix(up.suffix)>>)
    /\ [][\A i \in UploadIds :
            (StoredNow(i) /\ dirs'[i].present) =>
                StoredFile(dirs'[i]) = StoredFile(dirs[i])]_vars

\* two stored uploads side by side, and a third ingest answered
C20_Witness ==
    /\ \A i \in UploadIds : StoredNow(i) /\ dirs[i].hasFile /\ dirs[i].fdata = "stream"
    /\ dirs[1].fname # dirs[2].fname
    /\ dirs[1].fname[2] # dirs[2].fname[2]
    /\ up.pc = "done" /\ up.id = 2 /\ up.err = ""

Finished(r) == reqPc[r] \in {"done", "invalid", "failed"}

Count(ops, op) == Cardinality({k \in 1..Len(ops) : ops[k] = op})

\* C18: a request whose acquire timed out ends in the ServerBusy condition
\* having made no configure, no model call and no release, and it leaves the
\* lock with its holder; a request that acquired the lock has, once finished
\* by either path, made exactly acquire, configure, the call and one release,
\* and no longer holds the lock; the lock is never held by a request that is
\* outside its window
C18_BusyWithoutLockUse ==
    /\ [](\A r \in Requests :
            /\ reqPc[r] = "busy" => reqOps[r] = <<>> /\ reqUsed[r] = NoCall /\ apiLock # r
            /\ Finished(r) =>
                 /\ reqOps[r] = <<"acquire", "configure", "generate_content", "release">>
                 /\ Count(reqOps[r], "release") = 1
                 /\ apiLock # r
            /\ Count(reqOps[r], "release") <= Count(reqOps[r], "acquire")
            /\ apiLock = r <=> Count(reqOps[r], "acquire") > Count(reqOps[r], "release"))
    /\ [][\A r \in Requests :
            (reqPc[r] = "acquire" /\ reqPc'[r] = "busy") =>
                apiLock' = apiLock /\ genaiKey' = genaiKey]_vars

\* one request was turned away busy while the other held the lock, and that
\* holder has since left through the exception of its call, the lock free
C18_Witness ==
    \E r1, r2 \in Requests :
        /\ reqPc[r1] = "busy"
        /\ reqPc[r2] = "failed"
        /\ Count(reqOps[r2], "release") = 1
        /\ apiLock = 0

\* ------------------------------------------------- application properties
\* the directory whose file path save_uploaded_file has returned, 0 when the
\* call is still running or has raised
ReturnedPath == IF up.pc = "done" /\ up.err = "" THEN up.id ELSE 0

\* C17: the session names a current file only in ui_step "process", and the
\* file it names is present and holds the whole validated stream, within
\* MAX_FILE_SIZE; while the handler runs, and after it has failed, the
\* session names no file; save_uploaded_file returns a path only for a closed
\* file holding the whole stream within the limit, and an ingestion that is
\* running or has failed has no stored upload
C17_ExposedOnlyAfterCompleteCopy ==
    /\ ses.ui_step = "process" <=> ses.current_file_path # 0
    /\ ses.current_file_path # 0 =>
         LET t == tmp[ses.current_file_path]
         IN  /\ t.present
             /\ t.len = t.upload.bytes
             /\ t.len <= MAX_FILE_SIZE
             /\ app_validate_image_security(t.upload) = "ok"
    /\ hd.pc # "idle" => ses.ui_step = "upload" /\ ~tmp[hd.id].made
    /\ ses.ui_step = "error" => ses.current_file_path = 0
    /\ ReturnedPath # 0 =>
         LET d == dirs[ReturnedPath]
         IN  /\ d.present /\ d.hasFile /\ ~d.fopen /\ d.stored
             /\ d.flen = up.bytes /\ d.fdata = "stream"
             /\ d.flen <= MAX_FILE_SIZE_BYTES
    /\ (up.id # 0 /\ ReturnedPath = 0) => ~dirs[up.id].stored

\* an upload of the application has just failed, after an earlier one of
\* exactly MAX_FILE_SIZE bytes was exposed, while save_uploaded_file has
\* returned the path of one upload after failing on another
C17_Witness ==
    /\ ses.ui_step = "error"
    /\ \E i \in AppFileIds : tmp[i].made /\ tmp[i].len = MAX_FILE_SIZE
    /\ ReturnedPath = 2
    /\ ~dirs[1].stored

\* a file of the system temp directory that no session names any more: the
\* application opens only its session's current_file_path, so the file is
\* never accessed again
Abandoned(i) == tmp[i].present /\ ses.current_file_path # i /\ hd.pc = "idle"

\* the session root has been made, so that cleanup_stale_files scans it
RootExists == nextId > 1

\* C16: every upload the application has stored that is never accessed
\* again is eventually removed from disk, while time advances, the
\* application keeps running and cleanup_stale_files keeps being called
C16_EventualReclamation ==
    \A i \in AppFileIds : (Abandoned(i) /\ RootExists) ~> ~tmp[i].present

\* ------------------------------------------------------ ingest properties
\* the extensions the claim lists, lower case
ListedExtensions == {".png", ".jpg", ".jpeg", ".webp", ".pdf"}

Refused == up.pc = "done" /\ up.err # ""

\* C21 as stated: a finished ingest of a name whose extension is not listed
\* has failed with the unsupported-type error
C21_UnlistedIsUnsupportedType ==
    (up.pc = "done" /\ LowerSuffix(up.suffix) \notin ListedExtensions) =>
        up.err = "Extension"

\* C21: an ingest returns a path only for a name whose lower-cased extension
\* is listed; for any other extension it fails, with the unsupported-type
\* error when the declared size is within the limit and with the size error
\* when it is not, and the refusing call creates no directory and no file
C21_ExtensionGate ==
    /\ [](/\ (up.pc \in {"copy", "done"} /\ up.err = "") =>
                LowerSuffix(up.suffix) \in ListedExtensions
          /\ (up.pc # "idle" /\ LowerSuffix(up.suffix) \notin ListedExtensions) =>
                /\ up.pc = "done" /\ up.id = 0
                /\ up.err = (IF up.size > MAX_FILE_SIZE_BYTES THEN "SizeLimit" ELSE "Extension"))
    /\ [][(up.pc = "idle" /\ up'.pc # "idle"
             /\ LowerSuffix(up'.suffix) \notin ListedExtensions) =>
                (dirs' = dirs /\ nextId' = nextId)]_vars

\* a name with an unlisted extension has been refused while an upload
\* stored before it under an upper-case extension is on disk
C21_Witness ==
    /\ Refused /\ up.err = "Extension" /\ up.suffix = ".gif"
    /\ dirs[1].stored /\ dirs[1].present /\ dirs[1].fname = <<1, ".png">>
    /\ dirs[2].stored /\ dirs[2].fname = <<2, ".pdf">>

\* C22: at every step, the copy loops included, the file of every upload
\* directory, the file the handler is copying and every file moved to the
\* temp directory hold at most the limit; while a copy runs its file holds
\* exactly the bytes counted before the chunk in hand, and a chunk that
\* takes the total past the limit is counted but not written
C22_FileNeverExceedsLimit ==
    /\ \A i \in UploadIds : dirs[i].flen <= MAX_FILE_SIZE_BYTES
    /\ \A i \in AppFileIds : tmp[i].len <= MAX_FILE_SIZE
    /\ hd.written <= MAX_FILE_SIZE
    /\ up.pc = "copy" => dirs[up.id].flen = up.total
    /\ hd.pc = "copy" => hd.written = hd.total
    /\ (up.pc = "cleanup" /\ dirs[up.id].hasFile) =>
          /\ up.total > MAX_FILE_SIZE_BYTES
          /\ dirs[up.id].flen = up.total - Min(COPY_CHUNK, up.bytes - dirs[up.id].flen)
    /\ hd.pc = "failed" /\ hd.total > MAX_FILE_SIZE =>
          hd.written = hd.total - Min(READ_CHUNK, hd.uploaded.bytes - hd.written)

\* both copies have met the chunk that passes the limit: the totals are
\* beyond it, the files hold exactly the limit
C22_Witness ==
    /\ up.pc = "cleanup" /\ up.total = MAX_FILE_SIZE_BYTES + 1
    /\ dirs[up.id].hasFile /\ dirs[up.id].flen = MAX_FILE_SIZE_BYTES
    /\ hd.pc = "failed" /\ hd.total = MAX_FILE_SIZE + 1
    /\ hd.written = MAX_FILE_SIZE

\* ------------------------------------------- validator properties, continued
\* the characters of part appear in text, in order and next to each other
Contains(text, part) ==
    \E k \in 0..(Len(text) - Len(part)) :
        \A j \in 1..Len(part) : text[k + j] = part[j]

Parseable(content) == content.type = "pdf" /\ ~content.needs_pass

\* C23: once validate_pdf has run on a parseable, unencrypted document,
\* more than 10 pages give the page-limit error with a message that holds
\* the decimal page count and "10", and at most 10 pages with no
\* /JavaScript or /JS in the catalog give success, with no message
C23_PageLimitNamesCountAndLimit ==
    (vpdf # "not run" /\ Parseable(vfile.content)) =>
        /\ vfile.content.page_count > 10 =>
             /\ vpdf = "error: page limit"
             /\ Contains(vmsg, Digits(vfile.content.page_count))
             /\ Contains(vmsg, <<"1", "0">>)
             /\ Contains(vmsg, <<"PDF exceeds page limit (">>)
        /\ (vfile.content.page_count <= 10
              /\ vfile.content.catalog \notin {"/JavaScript", "/JS"}) =>
             vpdf = "ok" /\ vmsg = <<>>

\* a document of 12 pages with a script key in its catalog was refused for
\* its page count
C23_Witness ==
    /\ vpdf = "error: page limit"
    /\ vfile.content.page_count = 12
    /\ vfile.content.catalog = "/JS"
    /\ vmsg = <<"PDF exceeds page limit (", "1", "2", "/", "1", "0",
                "). Please upload a smaller file.">>

PixelsOf(content) == content.width * content.height

PixelErrors == {"error: pixel limit", "error: pixel limit (bomb error)"}

SetMax(S) == CHOOSE x \in S : \A y \in S : y <= x

HasPreviewCell == \E k \in 1..Len(layout) : layout[k].row_index < PREVIEW_ROW_CAP

\* the cells of the input with row_index below the preview limit
PreviewCells == {k \in 1..Len(layout) : layout[k].row_index < PREVIEW_ROW_CAP}

\* the plan entries whose origin lies below the preview limit
PreviewEntries == {k \in 1..Len(result.plan) : result.plan[k].row - 1 < PREVIEW_ROW_CAP}

IsMatrix(m, rows, cols) ==
    /\ Len(m) = rows
    /\ \A i \in 1..Len(m) : Len(m[i]) = cols

\* C25 (as claimed): for a collection holding a cell with row_index < 50 the
\* preview has exactly min(maxRow + 1, 50) rows and maxCol + 1 columns, maxRow
\* and maxCol being the largest row and column index among the input cells
\* with row_index < 50.
C25_PreviewSpansEveryCell ==
    (Rendered /\ HasPreviewCell) =>
        IsMatrix(result.preview,
                 Min(SetMax({layout[k].row_index : k \in PreviewCells}) + 1, PREVIEW_ROW_CAP),
                 SetMax({layout[k].col_index : k \in PreviewCells}) + 1)

\* C25 (amended): for a collection holding a cell with row_index < 50 the
\* preview is a rectangular matrix of at most 50 rows with exactly
\* min(maxRow + 1, 50) rows and maxCol + 1 columns, maxRow and maxCol being
\* the largest row and column index among the cells the plan emits with
\* row_index < 50; every position that is not the origin of an emitted cell
\* holds the empty string.
C25_PreviewSpansEmittedCells ==
    (Rendered /\ HasPreviewCell) =>
        /\ PreviewEntries # {}
        /\ IsMatrix(result.preview,
                    Min(SetMax({result.plan[k].row - 1 : k \in PreviewEntries}) + 1,
                        PREVIEW_ROW_CAP),
                    SetMax({result.plan[k].col - 1 : k \in PreviewEntries}) + 1)
        /\ Len(result.preview) <= PREVIEW_ROW_CAP
        /\ \A i \in 1..Len(result.preview) : \A j \in 1..Len(result.preview[i]) :
             (\A k \in PreviewEntries : <<result.plan[k].row, result.plan[k].col>> # <<i, j>>)
                => result.preview[i][j] = <<>>

\* a preview of 50 rows and 2 columns made by a cell in the last preview row,
\* with a cell beyond the limit left out and an unwritten position left empty
C25_Witness ==
    /\ Rendered
    /\ Len(layout) = 2
    /\ \E k \in 1..2 : layout[k].row_index = PREVIEW_ROW_CAP - 1 /\ layout[k].col_index = 1
                       /\ layout[k].text = <<"a">>
    /\ \E k \in 1..2 : layout[k].row_index = PREVIEW_ROW_CAP
    /\ IsMatrix(result.preview, PREVIEW_ROW_CAP, 2)
    /\ result.preview[PREVIEW_ROW_CAP][2] = <<"a">>
    /\ result.preview[PREVIEW_ROW_CAP][1] = <<>>

\* ------------------------------------------------------ cell normalisation
Unset(field) == field.tag \in {"missing", "null"}

\* the span a record's field stands for once repaired
RepairedSpan(field) ==
    IF Unset(field) THEN 1 ELSE IF field.v < 1 THEN 1 ELSE field.v

\* C26: parsing keeps one cell per record, in order; every cell has both
\* spans at least 1 (a span below 1 becomes 1, any other span is kept), an
\* absent or null text becomes the empty text, an absent or null index 0, an
\* absent or null span 1, and every field that was given is kept.
C26_NormalizationKeepsAndRepairs ==
    raw.parsed =>
        /\ Len(layout) = Len(raw.cells)
        /\ \A i \in 1..Len(layout) :
             LET d == raw.cells[i]
                 x == layout[i]
             IN  /\ x.row_span >= 1 /\ x.col_span >= 1
                 /\ x.row_span = RepairedSpan(d.row_span)
                 /\ x.col_span = RepairedSpan(d.col_span)
                 /\ x.text = (IF Unset(d.text) THEN <<>> ELSE d.text.v)
                 /\ x.row_index = (IF Unset(d.row_index) THEN 0 ELSE d.row_index.v)
                 /\ x.col_index = (IF Unset(d.col_index) THEN 0 ELSE d.col_index.v)

\* two records parsed: one with a null text, an absent row index, a negative
\* column index and spans 0 and -1, one with every field absent or null
C26_Witness ==
    /\ raw.parsed
    /\ Len(raw.cells) = 2
    /\ raw.cells[1] = [text |-> Null, row_index |-> Missing, col_index |-> Val(-1),
                       row_span |-> Val(0), col_span |-> Val(-1)]
    /\ raw.cells[2] = [text |-> Missing, row_index |-> Null, col_index |-> Missing,
                       row_span |-> Null, col_span |-> Missing]
    /\ layout[1] = [text |-> <<>>, row_index |-> 0, col_index |-> -1,
                    row_span |-> 1, col_span |-> 1]
    /\ layout[2] = [text |-> <<>>, row_index |-> 0, col_index |-> 0,
                    row_span |-> 1, col_span |-> 1]

\* --------------------------------------------------------- sweep, repeated
\* a sweep that began at the now of the sweep before it, with the root as
\* that sweep left it
RepeatSweep == sw.pc = "scan" /\ sw.again

\* C27 (as claimed): a sweep directly after another, at the same clock and
\* with the root unchanged in between, removes nothing.
C27_SecondSweepRemovesNothing ==
    RepeatSweep => \A k \in 1..Len(sw.log) : ~sw.log[k].removed

\* C27 (amended): a sweep directly after another, at the same clock and with
\* the root unchanged in between, is never cut short, and it removes only
\* entries that the sweep before found expired and failed to remove; when
\* that sweep failed on no entry, the repeated sweep meets no error, removes
\* nothing, and every entry the first sweep left is still there.
C27_SecondSweepOnlyRetries ==
    /\ sw.pc \in {"idle", "scan"}
    /\ RepeatSweep =>
         /\ \A k \in 1..Len(sw.log) :
              (sw.log[k].removed \/ sw.log[k].error) => sw.log[k].id \in sw.prev.failed
         /\ sw.prev.failed = {} =>
              \A i \in RootIds : sw.prev.after[i].present => dirs[i].present

\* the first sweep removed an expired upload and left a younger one; the
\* repeated sweep has examined what was left and has removed nothing
C27_Witness ==
    /\ RepeatSweep
    /\ sw.todo = {} /\ sw.snap # {}
    /\ \E i \in RootIds : dirs[i].sweptAt = sw.now /\ ~sw.prev.after[i].present
    /\ \A k \in 1..Len(sw.log) : ~sw.log[k].removed /\ ~sw.log[k].error
    /\ \A i \in sw.snap : dirs[i].present

\* ------------------------------------------------------- the mock scenario
PlanEntry(r, c, end_r, end_c, merge, text) ==
    [row |-> r, col |-> c, text |-> text, merge |-> merge,
     end_row |-> end_r, end_col |-> end_c]

\* C28: for the three cells of the mock answer, parsed and rendered, the
\* plan holds exactly one merge, over (1,1)-(1,2) in sheet coordinates with
\* the text 'Header Merged', and exactly two plain cells, at (2,1) and (2,2)
\* with their texts; the preview is 2 rows by 2 columns, its second row
\* being ['Row 1 Col 1', 'Row 1 Col 2']; the reported row count is 2.
C28_MockScenario ==
    (raw.cells = MOCK_RESPONSE /\ raw.parsed /\ result # NoResult) =>
        /\ result.kind = "result"
        /\ Len(result.plan) = 3
        /\ PlanSet(result) =
              {PlanEntry(1, 1, 1, 2, TRUE, HeaderMerged),
               PlanEntry(2, 1, 2, 1, FALSE, Row1Col1),
               PlanEntry(2, 2, 2, 2, FALSE, Row1Col2)}
        /\ Len(result.preview) = 2
        /\ \A i \in 1..2 : Len(result.preview[i]) = 2
        /\ result.preview[1][1] = HeaderMerged
        /\ result.preview[2] = <<Row1Col1, Row1Col2>>
        /\ result.row_count = 2

\* the mock answer has been parsed into three cells and rendered
C28_Witness ==
    /\ raw.cells = MOCK_RESPONSE /\ raw.parsed
    /\ Len(layout) = 3 /\ layout[1].col_span = 2 /\ layout[1].text = HeaderMerged
    /\ result # NoResult /\ result.kind = "result"
    /\ \E k \in 1..Len(result.plan) : result.plan[k].merge

\* ------------------------------------------------------------ image formats
\* C29: once validate_file has returned "image" for a file, the format the
\* file decodes to is JPEG, PNG or WEBP.
C29_OnlyThreeFormats ==
    vkind = "image" =>
        /\ vfile.content.type = "image"
        /\ vfile.content.format \in {"JPEG", "PNG", "WEBP"}

\* ------------------------------------------------------------ page index
\* the form in which a failure of the rendering leaves render_pdf_page
IsRenderFailed(res) ==
    res.kind = "ValueError" /\ res.message[1] = "Failed to render page: "

OutOfRange == rd.page_index < 0 \/ rd.page_index >= rd.doc.page_count

\* C30: render_pdf_page called on a document that opens, with a page index
\* below 0 or not below the page count, has raised an error that is not of
\* the form of a rendering failure, and has rendered nothing.
C30_InvalidIndexIsItsOwnError ==
    (rd.pc = "returned" /\ rd.doc.opens /\ OutOfRange) =>
        /\ rd.res.kind = "ValueError"
        /\ ~rd.res.rendered
        /\ ~IsRenderFailed(rd.res)

\* ------------------- the functions that open a document or an image
\* images whose pixel counts lie at and between the ceilings of the modules
EntryImages ==
    [type : {"image"}, format : {"PNG", "MPO", "GIF"}, verify_ok : BOOLEAN,
     width : {4000, 8000}, height : {5000, 10000, 10001}]

ImageFunctions ==
    {"file_utils.validate_image_security", "app.validate_image_security",
     "image_utils.validate_and_process_image"}

PdfFunctions == {"validate_pdf", "get_pdf_info"}

EntryDocs ==
    {d \in RenderDocs : d.page_count = 1 /\ d.rect = <<612, 792>>}

EntryCalls ==
    {c \in [fn : ImageFunctions, content : EntryImages \cup Garbage, too_large : BOOLEAN] :
        c.too_large => c.fn = "image_utils.validate_and_process_image"}
    \cup [fn : PdfFunctions,
          content : {d \in PdfDocs : d.page_count \in {10, 11}} \cup Garbage]
    \cup [fn : {"render_pdf_page"}, doc : EntryDocs, page_index : {-1, 0}, dpi : {72}]

\* "with X.open(path) as h:" once open has returned: __exit__ releases the
\* handle on every way out of the block
with_block == <<"closed">>

\* "h = X.open(...)" with no close() on the way out: the handle is open when
\* the function ends and is left to the garbage collector
no_close == <<"open">>

\* Image.open under the filter simplefilter('error', DecompressionBombWarning)
\* that file_utils and image_utils install on import
pillow_open(content, pil_max) ==
    IF content.type # "image" THEN "UnidentifiedImageError"
    ELSE IF content.width * content.height > 2 * pil_max THEN "DecompressionBombError"
    ELSE IF content.width * content.height > pil_max THEN "DecompressionBombWarning"
    ELSE "ok"

OpenVerdict(o) == IF o = "UnidentifiedImageError" THEN "invalid" ELSE "pixel limit"

Ended(verdict, handles) == [verdict |-> verdict, handles |-> handles]

\* file_utils.validate_image_security at the value Image.MAX_IMAGE_PIXELS has
\* when it is called, with the handles of its two with blocks
file_validate_image_security(content, pil_max) ==
    LET o == pillow_open(content, pil_max)
    IN  IF o # "ok" THEN Ended(OpenVerdict(o), <<>>)
        ELSE IF content.format \notin {"JPEG", "PNG", "WEBP", "MPO"}
             THEN Ended("format", with_block)
        ELSE IF ~content.verify_ok THEN Ended("verify", with_block)
        ELSE IF content.width * content.height > MAX_IMAGE_PIXELS
             THEN Ended("pixel limit", with_block \o with_block)
        ELSE Ended("ok", with_block \o with_block)

\* app.validate_image_security after its line 47, Image.MAX_IMAGE_PIXELS =
\* MAX_PIXELS
app_validate_image_handles(content) ==
    LET o == pillow_open(content, MAX_PIXELS)
    IN  IF o # "ok" THEN Ended(OpenVerdict(o), <<>>)
        ELSE IF content.format \notin ALLOWED_FORMATS THEN Ended("format", with_block)
        ELSE IF ~content.verify_ok THEN Ended("verify", with_block)
        ELSE IF content.width * content.height > MAX_PIXELS
             THEN Ended("pixel limit", with_block \o with_block)
        ELSE Ended("ok", with_block \o with_block)

\* image_utils.validate_and_process_image: the size test, Image.open on the
\* bytes, verify, the format map; image is never closed
validate_and_process_image(content, too_large, pil_max) ==
    LET o == pillow_open(content, pil_max)
    IN  IF too_large THEN Ended("size", <<>>)
        ELSE IF o # "ok" THEN Ended(OpenVerdict(o), <<>>)
        ELSE IF ~content.verify_ok THEN Ended("verify", no_close)
        ELSE IF content.format \notin {"PNG", "JPEG", "WEBP"} THEN Ended("format", no_close)
        ELSE Ended("ok", no_close)

\* validate_pdf and get_pdf_info: with fitz.open(file_path) as doc
pdf_with_block(fn, content) ==
    IF content.type # "pdf"
    THEN Ended(IF fn = "validate_pdf" THEN "error: corrupted" ELSE "no info", <<>>)
    ELSE Ended(IF fn = "validate_pdf" THEN validate_pdf(content) ELSE "info", with_block)

\* render_pdf_page: doc.close() before the return and in the except block
render_handles(doc, page_index, dpi) ==
    LET res == render_pdf_page(doc, page_index, dpi)
    IN  Ended(res.kind, IF res.handle = "never opened" THEN <<>> ELSE <<res.handle>>)

\* what a call ends with, and the value it leaves in Image.MAX_IMAGE_PIXELS
entry_result(c, pil_max) ==
    CASE c.fn = "file_utils.validate_image_security" ->
            file_validate_image_security(c.content, pil_max)
      [] c.fn = "app.validate_image_security" -> app_validate_image_handles(c.content)
      [] c.fn = "image_utils.validate_and_process_image" ->
            validate_and_process_image(c.content, c.too_large, pil_max)
      [] c.fn \in PdfFunctions -> pdf_with_block(c.fn, c.content)
      [] OTHER -> render_handles(c.doc, c.page_index, c.dpi)

pil_max_after(c, pil_max) ==
    IF c.fn = "app.validate_image_security" THEN MAX_PIXELS ELSE pil_max

\* the image a call decoded and whether it was refused for its pixel count
PixelVerdict(c, res) ==
    IF c.fn \in ImageFunctions /\ c.content.type = "image" /\ res.verdict # "size"
    THEN <<c.content.width * c.content.height, res.verdict = "pixel limit">>
    ELSE <<>>

InitEntry ==
    /\ AppIdle
    /\ vfile = NoFile
    /\ vkind = "not run"
    /\ vpdf = "not run"
    /\ vmsg = <<>>
    /\ rd = NoRender
    /\ pilMax = MAX_IMAGE_PIXELS
    /\ hc = NoEntryCall
    /\ GridIdle
    /\ ApiIdle
    /\ StoreIdle
    /\ WebIdle

\* one call of an entry point, from its first line to its return or raise
EntryCall(c) ==
    /\ hc.pc = "idle"
    /\ hc' = [pc |-> "returned", call |-> c, res |-> entry_result(c, pilMax),
              last |-> hc.last]
    /\ pilMax' = pil_max_after(c, pilMax)
    /\ UNCHANGED <<vfile, vkind, vpdf, vmsg, rd, gridVars, apiVars, storeVars, rmVars, appVars, webVars>>

\* the caller goes on; the verdict on a decoded image is remembered
EntryDone ==
    /\ hc.pc = "returned"
    /\ hc' = [pc |-> "idle",
              last |-> IF PixelVerdict(hc.call, hc.res) # <<>>
                       THEN PixelVerdict(hc.call, hc.res) ELSE hc.last]
    /\ UNCHANGED <<vfile, vkind, vpdf, vmsg, rd, pilMax, gridVars, apiVars, storeVars,
                   rmVars, appVars, webVars>>

NextEntry == (\E c \in EntryCalls : EntryCall(c)) \/ EntryDone

SpecEntry == InitEntry /\ [][NextEntry]_vars

\* C31: a call of a function that opens a document or an image has, when it
\* ends, by return or by exception, no handle it opened still open.
C31_NoHandleLeftOpen ==
    hc.pc = "returned" =>
        \A k \in 1..Len(hc.res.handles) : hc.res.handles[k] = "closed"

\* C32: two calls of entry points that decode an image of the same pixel
\* count, one directly after the other, give the same verdict on the pixel
\* count, whichever entry points they are and whichever ran first.
C32_OneCeilingEverywhere ==
    (/\ hc.pc = "returned"
     /\ PixelVerdict(hc.call, hc.res) # <<>>
     /\ hc.last # <<>>
     /\ hc.last[1] = PixelVerdict(hc.call, hc.res)[1]) =>
        PixelVerdict(hc.call, hc.res)[2] = hc.last[2]

\* ------------------------------------------------------------ claim C33
\* the call rendered a page: the document opened, the index named one of
\* its pages and get_pixmap returned
PageRendered == rd.pc = "returned" /\ rd.res.rendered

\* C33: for every valid page and requested DPI the page is rendered, at the
\* requested scale dpi / 72 when the page area at that scale is within
\* MAX_IMAGE_PIXELS and at a smaller scale otherwise; the effective scale
\* is never larger than the requested one, and the rendered area, page
\* width * page height * scale^2, never exceeds MAX_IMAGE_PIXELS.
C33_ScaleKeepsAreaWithinCeiling ==
    (rd.pc = "returned" /\ rd.doc.opens /\ rd.doc.draws
        /\ ~invalid_page_index(rd.page_index, rd.doc.page_count)) =>
        /\ rd.res.kind = "bytes"
        /\ rd.res.scale <= requested_scale(rd.dpi)
        /\ ~area_exceeds(rd.doc.rect, requested_scale(rd.dpi))
             => rd.res.scale = requested_scale(rd.dpi)
        /\ area_exceeds(rd.doc.rect, requested_scale(rd.dpi))
             => rd.res.scale < requested_scale(rd.dpi)
        /\ ~area_exceeds(rd.doc.rect, rd.res.scale)

\* what holds of the scale: the page is rendered, never above the requested
\* scale, at it when the area allows and below it otherwise
C33_ScaleNeverAboveRequested ==
    (rd.pc = "returned" /\ rd.doc.opens /\ rd.doc.draws
        /\ ~invalid_page_index(rd.page_index, rd.doc.page_count)) =>
        /\ rd.res.kind = "bytes"
        /\ rd.res.scale <= requested_scale(rd.dpi)
        /\ ~area_exceeds(rd.doc.rect, requested_scale(rd.dpi))
             => rd.res.scale = requested_scale(rd.dpi)
        /\ area_exceeds(rd.doc.rect, requested_scale(rd.dpi))
             => rd.res.scale < requested_scale(rd.dpi)

\* and of the area: one step of the scale below the effective one the page
\* is within the limit, so the excess is the rounding of the square root
C33_AreaWithinOneStep ==
    (PageRendered /\ rd.res.downscaled) =>
        ~area_exceeds(rd.doc.rect, rd.res.scale - 1)

\* an A4 page at 1200 dpi is rendered above the limit
C33_A4Above ==
    /\ PageRendered
    /\ rd.doc.rect = <<595, 842>>
    /\ rd.dpi = 1200
    /\ area_exceeds(rd.doc.rect, rd.res.scale)

\* ------------------------- the two copy loops fed by sources of any length
\* sources that declare a size within the limit: one that ends after two
\* reads, one that ends one byte past the limit, one that never ends
EndlessUploads ==
    [stem : {"a"}, suffix : {".png"}, size : {0},
     bytes : {COPY_CHUNK + 1, MAX_FILE_SIZE_BYTES + 1, Endless}]

EndlessAppUploads ==
    [bytes : {READ_CHUNK + 1, MAX_FILE_SIZE + 1, Endless}, format : {"PNG"},
     pixels : {MAX_PIXELS}]

NextCopy ==
    \/ \E f \in EndlessUploads : IngestStart(f)
    \/ CopyChunk
    \/ SafeRemove
    \/ IngestReturn
    \/ \E f \in EndlessAppUploads : UploadChanged(f)
    \/ CopyLimitedChunk
    \/ ValidateCopied
    \/ MoveAndExpose
    \/ UploadFailed
    \/ RemoveFile

SpecCopy == InitApp /\ [][NextCopy]_vars

\* a loop that was entered runs its next iteration
SpecCopyFair ==
    /\ InitApp
    /\ [][NextCopy]_vars
    /\ WF_vars(CopyChunk)
    /\ WF_vars(CopyLimitedChunk)

\* ------------------------------------------------------------ claim C34
\* the loop of save_uploaded_file goes on only within the limit and is left
\* for the limit with a total that the last chunk, and no earlier one, put
\* beyond it
SaveCopyBounded ==
    /\ up.pc = "copy" => up.total <= MAX_FILE_SIZE_BYTES
    /\ up.pc = "cleanup" =>
         /\ up.total > MAX_FILE_SIZE_BYTES
         /\ up.total <= MAX_FILE_SIZE_BYTES + COPY_CHUNK

\* the same of copy_limited
LimitedCopyBounded ==
    /\ hd.pc = "copy" => hd.total <= MAX_FILE_SIZE
    /\ (hd.pc = "failed" /\ hd.total > hd.written) =>
         /\ hd.total > MAX_FILE_SIZE
         /\ hd.total <= MAX_FILE_SIZE + READ_CHUNK
         /\ hd.written <= MAX_FILE_SIZE

\* C34: the streaming copy terminates for every source, one that declares a
\* small size and never signals the end of its data included: it stops once
\* the running total first exceeds the limit, having read at most one chunk
\* beyond the limit.
C34_CopyStopsAtTheLimit ==
    /\ [](SaveCopyBounded /\ LimitedCopyBounded)
    /\ (up.pc = "copy") ~> (up.pc # "copy")
    /\ (hd.pc = "copy") ~> (hd.pc # "copy")

\* and each iteration reads one chunk of at most 1 MiB, the only one held
C34_OneChunkAtATime ==
    [][/\ up'.total - up.total <= COPY_CHUNK
       /\ hd'.total - hd.total <= READ_CHUNK]_vars

\* both loops were stopped on a source that never ends
C34_Witness ==
    /\ up.pc = "cleanup"
    /\ up.bytes = Endless
    /\ up.size = 0
    /\ up.total = MAX_FILE_SIZE_BYTES + COPY_CHUNK
    /\ hd.pc = "failed"
    /\ hd.uploaded.bytes = Endless
    /\ hd.total = MAX_FILE_SIZE + READ_CHUNK

\* ------------------------------------- app.py: the cache of the analysis
\* the sessions that click Convert: a master, whose api_key is the
\* GEMINI_API_KEY of st.secrets, and guests, whose api_key is the key they
\* logged in with
ConvertSessions ==
    {[auth_user_type |-> "master", api_key |-> "AIza-secret"],
     [auth_user_type |-> "guest", api_key |-> "AIza-A"],
     [auth_user_type |-> "guest", api_key |-> "AIza-B"]}

\* final_image_bytes
ConvertImages == {"image 1", "image 2"}

\* lines 390-394: "master_shared" for a master, str(uuid.uuid4()) for
\* anybody else; the n-th uuid4 drawn differs from every other
cache_seed(auth_user_type, n) ==
    IF auth_user_type = "master" THEN <<"master_shared">> ELSE <<"uuid4", n>>

\* st.cache_data keys an entry by the arguments whose names do not start
\* with an underscore: everything but _api_key
cache_key(image_bytes, seed) ==
    [image_bytes |-> image_bytes, mime_type |-> "image/png",
     model_name |-> "gemini-3-flash-preview", cache_seed |-> seed,
     prompt_version |-> "v1_crop"]

cache_hit(entries, key) == \E e \in entries : e.key = key

\* get_cached_analysis: the stored value on a hit, else analyze_image with
\* _api_key, whose value is stored; by is the key the value was made with
get_cached_analysis(entries, key, api_key) ==
    IF cache_hit(entries, key)
    THEN [entries |-> entries, by |-> (CHOOSE e \in entries : e.key = key).by]
    ELSE [entries |-> entries \cup {[key |-> key, by |-> api_key]}, by |-> api_key]

InitCache ==
    /\ AppIdle
    /\ auth = NoAuth
    /\ cache = NoCache
    /\ panel = NoPanel
    /\ GridIdle
    /\ ApiIdle
    /\ ValIdle
    /\ StoreIdle

\* lines 352-404: Convert to Excel clicked in a session, up to the return
\* of get_cached_analysis
ConvertAnalyze(s, image_bytes) ==
    /\ Len(cache.log) < MaxConverts
    /\ LET seed == cache_seed(s.auth_user_type, cache.uuid)
           key == cache_key(image_bytes, seed)
           got == get_cached_analysis(cache.entries, key, s.api_key)
       IN  cache' = [entries |-> got.entries,
                     log |-> Append(cache.log,
                                    [api_key |-> s.api_key, cache_seed |-> seed,
                                     hit |-> cache_hit(cache.entries, key),
                                     by |-> got.by]),
                     uuid |-> IF s.auth_user_type = "master" THEN cache.uuid
                              ELSE cache.uuid + 1]
    /\ UNCHANGED <<auth, panel, gridVars, apiVars, valVars, storeVars, rmVars, appVars>>

\* ttl=3600, max_entries=100: an entry leaves the cache
CacheExpire ==
    /\ \E e \in cache.entries : cache' = [cache EXCEPT !.entries = @ \ {e}]
    /\ UNCHANGED <<auth, panel, gridVars, apiVars, valVars, storeVars, rmVars, appVars>>

NextCache ==
    \/ \E s \in ConvertSessions, i \in ConvertImages : ConvertAnalyze(s, i)
    \/ CacheExpire

SpecCache == InitCache /\ [][NextCache]_vars

\* ------------------------------------------------------------ claim C35
Converts == 1..Len(cache.log)

\* C35: the cache seed is a function of the API key alone: two conversion
\* requests made with the same API key use the same seed, requests made
\* with different API keys use different seeds, and a cached result is
\* never served across different API keys.
C35_SeedIsAFunctionOfTheKey ==
    \A i, j \in Converts :
        /\ cache.log[i].api_key = cache.log[j].api_key
             => cache.log[i].cache_seed = cache.log[j].cache_seed
        /\ cache.log[i].api_key # cache.log[j].api_key
             => cache.log[i].cache_seed # cache.log[j].cache_seed
        /\ cache.log[i].hit => cache.log[i].by = cache.log[i].api_key

\* what holds: requests made with different keys use different seeds, and
\* every value served was made with the key of the request it is served to
C35_KeysNeverShareASeed ==
    \A i, j \in Converts :
        /\ cache.log[i].api_key # cache.log[j].api_key
             => cache.log[i].cache_seed # cache.log[j].cache_seed
        /\ cache.log[i].by = cache.log[i].api_key

\* and what the seed depends on: the master's is one constant, a guest's is
\* new in every request, so that no request of a guest finds an entry
C35_GuestSeedIsFresh ==
    \A i, j \in Converts :
        /\ cache.log[i].cache_seed = <<"master_shared">>
             <=> cache.log[i].api_key = "AIza-secret"
        /\ (i # j /\ cache.log[i].api_key # "AIza-secret")
             => cache.log[i].cache_seed # cache.log[j].cache_seed
        /\ cache.log[i].hit => cache.log[i].api_key = "AIza-secret"

\* a guest converted the same image twice with one key
C35_SameKeyTwice ==
    \E i, j \in Converts :
        /\ i < j
        /\ cache.log[i].api_key = "AIza-A"
        /\ cache.log[j].api_key = "AIza-A"
        /\ cache.log[i].cache_seed # cache.log[j].cache_seed
        /\ ~cache.log[j].hit

\* --------------------------------- app.py: Convert and the result column
\* the images a session uploads, as the path they are stored under
PanelFiles == {1, 2, 3}

\* the boxes st_cropper returns
CropBoxes == {1, 2, 3}

\* lines 436-488, the right column.  It reads the keys conversion_result and
\* result_meta; with both set it goes on to the names uploaded_file and
\* current_file_id, which main never binds, else it draws the placeholder.
result_column(p) ==
    IF p.conversion_result # NoExcel /\ p.result_meta # NoExcel
    THEN "NameError"
    ELSE "placeholder"

\* one run of the script with the session state p: the right column is
\* drawn from it
script_run(p, status) == [p EXCEPT !.status = status, !.shown = result_column(p)]

\* handle_remove_file, lines 220-236
handle_remove_file(p) ==
    [p EXCEPT !.current_file_path = 0, !.excel_data = NoExcel, !.cropping = FALSE,
              !.crop = 0, !.ui_step = "upload"]

InitPanel ==
    /\ AppIdle
    /\ auth = NoAuth
    /\ cache = NoCache
    /\ panel = NoPanel
    /\ GridIdle
    /\ ApiIdle
    /\ ValIdle
    /\ StoreIdle

\* a file chosen in the uploader: handle_file_upload_secure stores it or
\* goes to the error step, then the script runs
PanelUpload(f, stored) ==
    /\ panel.ui_step = "upload"
    /\ panel.uploads < MaxAppUploads
    /\ panel' = script_run([panel EXCEPT !.ui_step = IF stored THEN "process" ELSE "error",
                                         !.current_file_path = IF stored THEN f ELSE @,
                                         !.uploads = @ + 1], "none")
    /\ UNCHANGED <<auth, cache, gridVars, apiVars, valVars, storeVars, rmVars, appVars>>

\* lines 318-346: the crop toggle and the cropper, each change a script run
PanelCrop(on, box) ==
    /\ panel.ui_step = "process"
    /\ panel' = script_run([panel EXCEPT !.cropping = on,
                                         !.crop = IF on THEN box ELSE 0], "none")
    /\ UNCHANGED <<auth, cache, gridVars, apiVars, valVars, storeVars, rmVars, appVars>>

\* lines 352-419: Convert to Excel.  excel_data is reset; when the analysis
\* and render_excel return, the result is saved and st.rerun() starts the
\* script again; when they raise, the error is shown and this run goes on
\* to the right column
PanelConvert(ok) ==
    /\ panel.ui_step = "process"
    /\ panel' = script_run([panel EXCEPT !.excel_data =
                              IF ok THEN [file |-> panel.current_file_path, crop |-> panel.crop]
                              ELSE NoExcel],
                        IF ok THEN "none" ELSE "Conversion Failed")
    /\ UNCHANGED <<auth, cache, gridVars, apiVars, valVars, storeVars, rmVars, appVars>>

\* the remove button of the process step, the button of the error step:
\* handle_remove_file and st.rerun()
PanelRemove ==
    /\ panel.ui_step \in {"process", "error"}
    /\ panel' = script_run(handle_remove_file(panel), "none")
    /\ UNCHANGED <<auth, cache, gridVars, apiVars, valVars, storeVars, rmVars, appVars>>

NextPanel ==
    \/ \E f \in PanelFiles, stored \in BOOLEAN : PanelUpload(f, stored)
    \/ \E on \in BOOLEAN, box \in CropBoxes : PanelCrop(on, box)
    \/ \E ok \in BOOLEAN : PanelConvert(ok)
    \/ PanelRemove

SpecPanel == InitPanel /\ [][NextPanel]_vars

\* ------------------------------------------------------------ claim C36
\* C36: after Convert completes successfully the result saved in the session
\* is the one the result panel reads: from the following rerun on the panel
\* shows the preview and the download for the currently loaded file, until
\* the file is removed or replaced.
C36_PanelShowsTheSavedResult ==
    panel.excel_data # NoExcel =>
        /\ panel.excel_data.file = panel.current_file_path
        /\ panel.conversion_result = panel.excel_data
        /\ panel.shown = "result"

\* what holds of the saved result: it is kept for the loaded file, from a
\* successful Convert until the file is removed or Convert is clicked again
C36_SavedResultIsOfTheLoadedFile ==
    /\ panel.excel_data # NoExcel =>
         (panel.ui_step = "process" /\ panel.excel_data.file = panel.current_file_path)
    /\ [][(panel.excel_data # NoExcel /\ panel'.excel_data # panel.excel_data)
            => (panel'.ui_step = "upload" \/ panel'.current_file_path = panel.current_file_path)]_vars

\* and of the panel: nothing sets the keys it reads, it draws the
\* placeholder in every run
C36_PanelAlwaysEmpty ==
    /\ panel.conversion_result = NoExcel
    /\ panel.result_meta = NoExcel
    /\ panel.shown \in {"nothing", "placeholder"}

\* a conversion succeeded and the rerun drew the placeholder
C36_ConvertedUnseen ==
    /\ panel.excel_data = [file |-> 1, crop |-> 2]
    /\ panel.current_file_path = 1
    /\ panel.shown = "placeholder"

\* --------------------------------------------------------- auth_utils.py
MAX_FAILED_ATTEMPTS == 5

LOCKOUT_DURATION_MINUTES == 5

\* st.secrets of a deployment
Secrets == [APP_PASSWORD : {"", "password"}, GEMINI_API_KEY : {"", "AIza-secret"}]

\* what is typed into the login form: nothing, the application password, a
\* key that matches GUEST_KEY_PATTERN, anything else
LoginInputs == {"", "password", "AIza-guest", "wrong"}

\* line 96: re.match(GUEST_KEY_PATTERN, user_input)
matches_guest_key(user_input) == user_input = "AIza-guest"

\* a plausible slip: the count of failures survives the lockout
is_locked_out_keeps_count(a) ==
    IF a.locked_until # -1
    THEN IF a.locked_until - a.now > 0
         THEN [locked |-> TRUE, state |-> a]
         ELSE [locked |-> FALSE, state |-> [a EXCEPT !.locked_until = -1]]
    ELSE [locked |-> FALSE, state |-> a]

\* is_locked_out, lines 26-37: whether the session is locked, and the
\* session state it leaves
is_locked_out(a) ==
    IF a.locked_until # -1
    THEN IF a.locked_until - a.now > 0
         THEN [locked |-> TRUE, state |-> a]
         ELSE [locked |-> FALSE,
               state |-> [a EXCEPT !.locked_until = -1, !.failed_attempts = 0]]
    ELSE [locked |-> FALSE, state |-> a]

\* handle_failed_attempt, lines 39-52; the sleep of at most 3 seconds is
\* below the model's minute
handle_failed_attempt(a) ==
    LET attempts == a.failed_attempts + 1
    IN  [a EXCEPT !.failed_attempts = attempts,
                  !.locked_until = IF attempts >= MAX_FAILED_ATTEMPTS
                                   THEN a.now + LOCKOUT_DURATION_MINUTES ELSE @,
                  !.auth_status = "False"]

\* login, lines 66-106, past the lockout test.  st.rerun() ends the script
\* run by raising: the return True behind it is never reached, ret is
\* "rerun" there
check_input(a, user_input) ==
    IF user_input = "" THEN [a EXCEPT !.ret = "False"]
    ELSE IF a.secrets.APP_PASSWORD # "" /\ user_input = a.secrets.APP_PASSWORD
    THEN IF a.secrets.GEMINI_API_KEY # ""
         THEN [a EXCEPT !.auth_status = "True", !.auth_user_type = "master",
                        !.api_key = a.secrets.GEMINI_API_KEY,
                        !.failed_attempts = 0, !.ret = "rerun"]
         ELSE [a EXCEPT !.auth_status = "True", !.auth_user_type = "master",
                        !.ret = "False"]
    ELSE IF matches_guest_key(user_input)
    THEN [a EXCEPT !.auth_status = "True", !.auth_user_type = "guest",
                   !.api_key = user_input, !.failed_attempts = 0, !.ret = "rerun"]
    ELSE [handle_failed_attempt(a) EXCEPT !.ret = "False"]

\* login, lines 54-106
login(a, user_input) ==
    LET lock == is_locked_out(a)
        called == [lock.state EXCEPT !.last = "login", !.input = user_input]
    IN  IF lock.locked THEN [called EXCEPT !.ret = "False"]
        ELSE check_input(called, user_input)

\* logout, lines 108-113
logout(a) ==
    [a EXCEPT !.auth_status = "None", !.auth_user_type = "None", !.api_key = "None",
              !.last = "logout", !.input = "", !.ret = "rerun"]

InitAuth ==
    /\ AppIdle
    /\ \E s \in Secrets : auth = [NoAuth EXCEPT !.secrets = s]
    /\ cache = NoCache
    /\ panel = NoPanel
    /\ GridIdle
    /\ ApiIdle
    /\ ValIdle
    /\ StoreIdle

\* app.py lines 254-260: the login form, shown while auth_status is not
\* true, submitted
Login(user_input) ==
    /\ auth.auth_status # "True"
    /\ auth' = login(auth, user_input)
    /\ UNCHANGED <<cache, panel, gridVars, apiVars, valVars, storeVars, rmVars, appVars>>

\* app.py lines 250-253: the logout button, shown while auth_status is true
Logout ==
    /\ auth.auth_status = "True"
    /\ auth' = logout(auth)
    /\ UNCHANGED <<cache, panel, gridVars, apiVars, valVars, storeVars, rmVars, appVars>>

\* a minute passes
AuthTick ==
    /\ auth.now < MaxMinutes
    /\ auth' = [auth EXCEPT !.now = @ + 1, !.last = "tick"]
    /\ UNCHANGED <<cache, panel, gridVars, apiVars, valVars, storeVars, rmVars, appVars>>

NextAuth ==
    \/ \E user_input \in LoginInputs : Login(user_input)
    \/ Logout
    \/ AuthTick

SpecAuth == InitAuth /\ [][NextAuth]_vars

\* ------------------------------------------------------------ claim C37
\* a call of login took this step
LoginStep == auth.auth_status # "True" /\ \E i \in LoginInputs : auth' = login(auth, i)

\* the session fields a refused call leaves alone
AuthFields(a) ==
    <<a.auth_status, a.auth_user_type, a.api_key, a.failed_attempts, a.locked_until>>

\* the step in which failed_attempts reaches the maximum sets locked_until
\* five minutes ahead
LockSetAtTheLimit ==
    (auth.failed_attempts < MAX_FAILED_ATTEMPTS
        /\ auth'.failed_attempts >= MAX_FAILED_ATTEMPTS) =>
        auth'.locked_until = auth'.now + LOCKOUT_DURATION_MINUTES

\* before that time a call returns False and changes nothing, whatever is
\* typed
RefusedWhileLocked ==
    (LoginStep /\ auth.locked_until # -1 /\ auth.now < auth.locked_until) =>
        /\ auth'.ret = "False"
        /\ AuthFields(auth') = AuthFields(auth)

\* after that time a call starts from locked_until None and failed_attempts
\* 0 and evaluates what is typed
EvaluatedAfterLock ==
    (LoginStep /\ auth.locked_until # -1 /\ auth.now > auth.locked_until) =>
        /\ auth' = check_input([auth EXCEPT !.locked_until = -1, !.failed_attempts = 0,
                                            !.last = "login", !.input = auth'.input],
                               auth'.input)
        /\ auth'.locked_until = -1
        /\ auth'.failed_attempts <= 1
        /\ matches_guest_key(auth'.input) => auth'.auth_status = "True"

\* C37: once failed_attempts reaches MAX_FAILED_ATTEMPTS, locked_until is set
\* 5 minutes ahead; every login call before that time returns False without
\* evaluating the input and without changing failed_attempts or auth_status;
\* the first login call after that time resets locked_until and
\* failed_attempts and evaluates the input normally.
C37_LockoutHoldsForFiveMinutes ==
    /\ [](auth.failed_attempts <= MAX_FAILED_ATTEMPTS)
    /\ [][LockSetAtTheLimit /\ RefusedWhileLocked /\ EvaluatedAfterLock]_vars

\* a valid key was typed while the session was locked
C37_Witness ==
    /\ auth.last = "login"
    /\ auth.input = "AIza-guest"
    /\ auth.ret = "False"
    /\ auth.failed_attempts = MAX_FAILED_ATTEMPTS
    /\ auth.now < auth.locked_until

\* ------------------------------------------------------------ claim C38
\* a session that counts as logged in holds a key and a user type
Authenticated(a) ==
    a.auth_status = "True" =>
        (a.api_key # "None" /\ a.auth_user_type \in {"master", "guest"})

\* C38: in every reachable session state auth_status == True implies that
\* api_key is set and auth_user_type is 'master' or 'guest'; login succeeds
\* only in such a state, and logout clears all three together.
C38_AuthenticatedHasKeyAndType ==
    /\ Authenticated(auth)
    /\ (auth.last = "login" /\ auth.ret = "rerun") =>
         (auth.auth_status = "True" /\ auth.api_key # "None"
            /\ auth.auth_user_type \in {"master", "guest"})
    /\ auth.last = "logout" =>
         (auth.auth_status = "None" /\ auth.auth_user_type = "None"
            /\ auth.api_key = "None")

\* what holds: a login that succeeded left a key and a type, logout clears
\* the three, and a session that is logged in has a user type
C38_SuccessfulLoginHasKey ==
    /\ (auth.last = "login" /\ auth.ret = "rerun") =>
         (auth.auth_status = "True" /\ auth.api_key # "None"
            /\ auth.auth_user_type \in {"master", "guest"})
    /\ auth.last = "logout" =>
         (auth.auth_status = "None" /\ auth.auth_user_type = "None"
            /\ auth.api_key = "None")
    /\ auth.auth_status = "True" => auth.auth_user_type \in {"master", "guest"}

\* and where it fails: only with the password right and no GEMINI_API_KEY in
\* the secrets
C38_KeylessOnlyWithoutSecretKey ==
    ~Authenticated(auth) =>
        /\ auth.secrets.GEMINI_API_KEY = ""
        /\ auth.auth_user_type = "master"
        /\ auth.ret = "False"

\* logged in as master with no key
C38_MasterWithoutKey ==
    /\ auth.auth_status = "True"
    /\ auth.auth_user_type = "master"
    /\ auth.api_key = "None"
    /\ auth.last = "login"

====
